---- MODULE Spec2Model ----
(***************************************************************************)
(* Model of the Arc radix tree (src/arc.go), of RadixDB's Insert, of the   *)
(* node primitives and of the reference-counted blob store.  The tree is   *)
(* held as a value: a node is a record whose children field is the ordered *)
(* sequence of its child nodes, the root is a sequence of zero (nil) or    *)
(* one node.                                                               *)
(***************************************************************************)
EXTENDS Integers, Sequences, FiniteSets, TLC

(***************************************************************************)
(* Program constants.                                                      *)
(***************************************************************************)
blobIDLen == 32
inlineValueThreshold == blobIDLen
maxUint16 == 65535
maxKeyBytes == maxUint16

(***************************************************************************)
(* Bounds of the model.                                                    *)
(***************************************************************************)
MaxRecords == 4
MaxBlobRefs == 2
MaxNodes == 6

\* The keys of the model: "", "a", "b", "aa" and "ab".
KeyBytes == {<<>>, <<97>>, <<98>>, <<97, 97>>, <<97, 98>>}

Rep(b, n) == [i \in 1..n |-> b]

\* One inline value, and two distinct values one byte past the inline limit.
ValueBytes == {<<115>>, Rep(120, inlineValueThreshold + 1), Rep(121, inlineValueThreshold + 1)}

(***************************************************************************)
(* Inputs of the public operations.  A key argument is nil, a byte slice,  *)
(* or a slice longer than maxKeyBytes of which only the length matters; a  *)
(* value argument is a byte slice or a slice longer than maxValueBytes.    *)
(***************************************************************************)
NilKey == [nil |-> TRUE, huge |-> FALSE, b |-> <<>>]
HugeKey == [nil |-> FALSE, huge |-> TRUE, b |-> <<97>>]
BytesKey(b) == [nil |-> FALSE, huge |-> FALSE, b |-> b]
KeyInputs == {NilKey, HugeKey} \cup {BytesKey(b) : b \in KeyBytes}

HugeValue == [huge |-> TRUE, b |-> <<>>]
BytesValue(b) == [huge |-> FALSE, b |-> b]
ValueInputs == {HugeValue} \cup {BytesValue(b) : b \in ValueBytes}

\* The (key, value) arguments of Add and Put: every byte-slice key with every
\* byte-slice value, and the arguments that fail validation.
InsertInputs ==
    {<<BytesKey(k), BytesValue(v)>> : k \in KeyBytes, v \in ValueBytes}
        \cup {<<NilKey, BytesValue(<<115>>)>>, <<NilKey, HugeValue>>,
              <<HugeKey, BytesValue(Rep(120, inlineValueThreshold + 1))>>,
              <<HugeKey, HugeValue>>, <<BytesKey(<<97>>), HugeValue>>}

\* The values given to RadixDB.Insert: one of exactly inlineValueThreshold
\* bytes and the two one byte longer, with every key; the one-byte and the
\* empty value with one key; and the arguments that fail validation.
RdbValueBytes ==
    {Rep(116, inlineValueThreshold), Rep(120, inlineValueThreshold + 1),
     Rep(121, inlineValueThreshold + 1)}

RdbInsertInputs ==
    {<<BytesKey(k), BytesValue(v)>> : k \in KeyBytes, v \in RdbValueBytes}
        \cup {<<BytesKey(<<97, 98>>), BytesValue(<<115>>)>>,
              <<BytesKey(<<97, 98>>), BytesValue(<<>>)>>}
        \cup {in \in InsertInputs : in[1].nil \/ in[1].huge \/ in[2].huge}

keyLen(k) == IF k.huge THEN maxKeyBytes + 1 ELSE Len(k.b)
\* len(value) > maxValueBytes, where maxValueBytes = 2^32 - 1 is beyond the
\* integers of the model checker: only the oversize input is longer.
valueTooLarge(v) == v.huge

VARIABLES root, numNodes, numRecords, blobs, last, prev, pc, call, out, snap, mu,
          heap, held, hist

\* The state of the goroutines that call into one Arc concurrently, and of
\* the Arc's sync.RWMutex.
concVars == <<pc, call, out, snap, mu>>

\* The byte buffers that slices point into, and the slices a caller holds;
\* hist is the history of the calls made on a blob store by itself.
memVars == <<heap, held, hist>>

vars == <<root, numNodes, numRecords, blobs, last, prev, pc, call, out, snap, mu, heap, held, hist>>

(***************************************************************************)
(* Prefix primitives.                                                      *)
(***************************************************************************)
Min(a, b) == IF a < b THEN a ELSE b

longestCommonPrefix(a, b) ==
    LET minLen == Min(Len(a), Len(b))
        i == Cardinality({n \in 1..minLen : \A m \in 1..n : a[m] = b[m]})
    IN SubSeq(a, 1, i)

\* bytes.Compare: -1, 0 or 1 by byte-lexicographic order.
bytesCompare(a, b) ==
    LET p == Len(longestCommonPrefix(a, b))
    IN IF p = Len(a) /\ p = Len(b) THEN 0
       ELSE IF p = Len(a) THEN -1
       ELSE IF p = Len(b) THEN 1
       ELSE IF a[p + 1] < b[p + 1] THEN -1 ELSE 1

(***************************************************************************)
(* Blob store: a map from blob id to (value, refCount).                    *)
(***************************************************************************)
\* SHA-256 is modelled as a 32-byte digest that is injective on ValueBytes.
sha256(value) ==
    [i \in 1..blobIDLen |-> ((IF Len(value) = 0 THEN 0 ELSE value[1]) + i * Len(value)) % 256]

\* A faulty put that stores a fresh entry whether or not one is there.
put_alwaysInserts(bs, value) ==
    LET k == sha256(value)
    IN [store |-> (k :> [value |-> value, refCount |-> 1]) @@ bs, id |-> k]

put(bs, value) ==
    LET k == sha256(value)
    IN IF k \in DOMAIN bs
       THEN [store |-> [bs EXCEPT ![k].refCount = @ + 1], id |-> k]
       ELSE [store |-> (k :> [value |-> value, refCount |-> 1]) @@ bs, id |-> k]

get(bs, id) ==
    IF Len(id) # blobIDLen THEN <<>>
    ELSE IF id \notin DOMAIN bs THEN <<>>
    ELSE bs[id].value

\* A faulty release that drops the entry whatever its reference count.
release_dropsEntry(bs, id) ==
    IF Len(id) # blobIDLen THEN bs
    ELSE IF id \notin DOMAIN bs THEN bs
    ELSE [x \in DOMAIN bs \ {id} |-> bs[x]]

\* A faulty release that leaves the store as it is.
release_keepsEntry(bs, id) == bs

release(bs, id) ==
    IF Len(id) # blobIDLen THEN bs
    ELSE IF id \notin DOMAIN bs THEN bs
    ELSE LET rc == IF bs[id].refCount > 0 THEN bs[id].refCount - 1 ELSE bs[id].refCount
         IN IF rc = 0
            THEN [x \in DOMAIN bs \ {id} |-> bs[x]]
            ELSE [bs EXCEPT ![id].refCount = rc]

EmptyBlobs == [x \in {} |-> [value |-> <<>>, refCount |-> 0]]

(***************************************************************************)
(* Node primitives.                                                        *)
(***************************************************************************)
NewNode(key) ==
    [key |-> key, data |-> <<>>, isRecord |-> FALSE, blobValue |-> FALSE, children |-> <<>>]

hasChildren(n) == Len(n.children) > 0

isLeaf(n) == Len(n.children) = 0

numChildren(n) == Len(n.children)

\* sort.Search over children: the binary search for the first child whose
\* key compares >= key, as a 0-based index in lo..hi.
RECURSIVE sortSearch(_, _, _, _)
sortSearch(children, key, lo, hi) ==
    IF lo < hi
    THEN LET h == (lo + hi) \div 2
         IN IF bytesCompare(children[h + 1].key, key) >= 0
            THEN sortSearch(children, key, lo, h)
            ELSE sortSearch(children, key, h + 1, hi)
    ELSE lo

\* A findCompatibleChild that never finds a child.
findCompatibleChild_findsNone(n, key) == 0

\* Index (1-based) of the first child sharing a non-empty prefix with key,
\* 0 when there is none (nil).
findCompatibleChild(n, key) ==
    LET hits == {i \in 1..Len(n.children) :
                    Len(longestCommonPrefix(n.children[i].key, key)) > 0}
    IN IF hits = {} THEN 0 ELSE CHOOSE i \in hits : \A j \in hits : i <= j

\* An addChild that appends the child after the others.
addChild_appends(n, child) == [n EXCEPT !.children = Append(n.children, child)]

addChild(n, child) ==
    LET index == sortSearch(n.children, child.key, 0, Len(n.children))
    IN [n EXCEPT !.children =
            SubSeq(n.children, 1, index) \o <<child>>
                \o SubSeq(n.children, index + 1, Len(n.children))]

removeChild(n, child) ==
    LET index == sortSearch(n.children, child.key, 0, Len(n.children))
    IN IF index >= Len(n.children)
          \/ Len(longestCommonPrefix(n.children[index + 1].key, child.key)) = 0
       THEN [node |-> n, err |-> "ErrKeyNotFound"]
       ELSE [node |-> [n EXCEPT !.children =
                          SubSeq(n.children, 1, index)
                              \o SubSeq(n.children, index + 2, Len(n.children))],
             err |-> "nil"]

\* CRC32 over key, value and the two flags, modelled as that content itself:
\* equal checksums mean equal content.  The zero checksum of a node that
\* never had one computed is the empty tuple.
calculateChecksum(n) == <<n.key, n.data, n.isRecord, n.blobValue>>

\* Only the nodes of a RadixDB carry the checksum field.
updateChecksum(n) ==
    IF "checksum" \in DOMAIN n THEN [n EXCEPT !.checksum = calculateChecksum(n)] ELSE n

verifyChecksum(n) ==
    IF n.checksum = <<>> THEN FALSE ELSE n.checksum = calculateChecksum(n)

\* A faulty shallowCopyFrom that copies nothing.
shallowCopyFrom_copiesNothing(n, src) == n

shallowCopyFrom(n, src) ==
    updateChecksum([n EXCEPT !.key = src.key, !.data = src.data, !.blobValue = src.blobValue,
                             !.isRecord = src.isRecord, !.children = src.children])

setKey(n, key) == updateChecksum([n EXCEPT !.key = key])

\* A faulty prependKey that leaves the key as it is.
prependKey_skips(n, prefix) == n

\* A faulty prependKey that puts the prefix after the key.
prependKey_appends(n, prefix) ==
    IF Len(prefix) = 0 THEN n ELSE updateChecksum([n EXCEPT !.key = n.key \o prefix])

prependKey(n, prefix) ==
    IF Len(prefix) = 0 THEN n ELSE updateChecksum([n EXCEPT !.key = prefix \o n.key])

\* setValue marks the node as a record and assigns the value: inline up to
\* inlineValueThreshold bytes, through the blob store above it.  A blob id
\* held before the assignment is released first.
setValue(n, bs, value) ==
    LET bs1 == IF n.blobValue THEN release(bs, n.data) ELSE bs
    IN IF Len(value) <= inlineValueThreshold
       THEN [node |-> [n EXCEPT !.isRecord = TRUE, !.data = value, !.blobValue = FALSE],
             store |-> bs1]
       ELSE LET p == put(bs1, value)
            IN [node |-> [n EXCEPT !.isRecord = TRUE, !.data = p.id, !.blobValue = TRUE],
                store |-> p.store]

newRecordNode(bs, key, value) == setValue(NewNode(key), bs, value)

\* A faulty deleteValue that clears the value and keeps the blob reference.
deleteValue_keepsBlob(n, bs) ==
    [node |-> [n EXCEPT !.data = <<>>, !.blobValue = FALSE], store |-> bs]

\* deleteValue clears the node's value, releasing its blob if it holds one.
deleteValue(n, bs) ==
    [node |-> [n EXCEPT !.data = <<>>, !.blobValue = FALSE],
     store |-> IF n.blobValue THEN release(bs, n.data) ELSE bs]

\* value returns the node's value: the inline bytes, or the blob's bytes.
value(n, bs) == IF n.blobValue THEN get(bs, n.data) ELSE n.data

(***************************************************************************)
(* The tree engine.  A tree state is the record of the Arc's fields.       *)
(***************************************************************************)
Tree(r, nn, nr, bs) == [root |-> r, numNodes |-> nn, numRecords |-> nr, blobs |-> bs]

empty(t) == t.root = <<>> /\ t.numRecords = 0

clear(t) == Tree(<<>>, 0, 0, EmptyBlobs)

DropPrefix(key, n) == SubSeq(key, n + 1, Len(key))

ReplaceChild(n, i, child) == [n EXCEPT !.children[i] = child]

\* A faulty splitNode that leaves newNode its whole key.
splitNode_keepsNewKey(current, newNode, commonPrefix) ==
    LET newParent == NewNode(commonPrefix)
        cur == setKey(current, DropPrefix(current.key, Len(commonPrefix)))
    IN addChild(addChild(newParent, cur), newNode)

\* A faulty splitNode that leaves current its whole key.
splitNode_keepsCurrentKey(current, newNode, commonPrefix) ==
    LET newParent == NewNode(commonPrefix)
        new == setKey(newNode, DropPrefix(newNode.key, Len(commonPrefix)))
    IN addChild(addChild(newParent, current), new)

\* splitNode, as seen from the slot that holds current: the new non-record
\* parent with the common prefix as key and current and newNode, stripped of
\* that prefix, as its children.
splitNode(current, newNode, commonPrefix) ==
    LET newParent == NewNode(commonPrefix)
        cur == setKey(current, DropPrefix(current.key, Len(commonPrefix)))
        new == setKey(newNode, DropPrefix(newNode.key, Len(commonPrefix)))
    IN addChild(addChild(newParent, cur), new)

\* The descent loop of insert from the node current, with the part of the key
\* that remains.  The result names the node that takes current's slot, how
\* the parent is relinked ("none": current was changed in place, "checked":
\* removeChild whose error is returned, then addChild, "unchecked":
\* removeChild whose error is dropped, then addChild), the error, the counter
\* increments and the blob store.
RECURSIVE insertLoop(_, _, _, _, _, _)
insertLoop(current, key, val, overwrite, isRoot, bs) ==
    LET prefix == longestCommonPrefix(current.key, key)
        prefixLen == Len(prefix)
        same(e) == [node |-> current, relink |-> "none", err |-> e, dn |-> 0, dr |-> 0, store |-> bs]
    IN IF prefixLen = Len(current.key) /\ prefixLen = Len(key)
       THEN IF ~overwrite
            THEN same("ErrDuplicateKey")
            ELSE LET sv == setValue(current, bs, val)
                 IN [node |-> sv.node, relink |-> "none", err |-> "nil", dn |-> 0,
                     dr |-> IF ~current.isRecord THEN 1 ELSE 0, store |-> sv.store]
       ELSE IF prefixLen = Len(key) /\ prefixLen < Len(current.key)
       THEN LET cur == setKey(current, DropPrefix(current.key, Len(key)))
                nr == newRecordNode(bs, key, val)
            IN [node |-> addChild(nr.node, cur),
                relink |-> IF isRoot THEN "none" ELSE "checked",
                err |-> "nil", dn |-> 1, dr |-> 1, store |-> nr.store]
       ELSE IF prefixLen > 0 /\ prefixLen < Len(current.key)
       THEN LET nr == newRecordNode(bs, key, val)
            IN [node |-> splitNode(current, nr.node, prefix),
                relink |-> IF isRoot THEN "none" ELSE "unchecked",
                err |-> "nil", dn |-> 2, dr |-> 1, store |-> nr.store]
       ELSE LET rest == DropPrefix(key, prefixLen)
                next == findCompatibleChild(current, rest)
            IN IF next = 0
               THEN LET nr == newRecordNode(bs, rest, val)
                        attach == ~isRoot \/ Len(current.key) = 0 \/ prefixLen = Len(current.key)
                    IN [node |-> IF attach THEN addChild(current, nr.node) ELSE current,
                        relink |-> "none", err |-> "nil", dn |-> 1, dr |-> 1,
                        store |-> IF attach THEN nr.store ELSE bs]
               ELSE LET child == current.children[next]
                        r == insertLoop(child, rest, val, overwrite, FALSE, bs)
                        rm == removeChild(current, child)
                    IN IF r.err # "nil" THEN same(r.err)
                       ELSE IF r.relink = "none"
                       THEN [r EXCEPT !.node = ReplaceChild(current, next, r.node)]
                       ELSE IF r.relink = "checked" /\ rm.err # "nil"
                       THEN same(rm.err)
                       ELSE [r EXCEPT !.node = addChild(rm.node, r.node), !.relink = "none"]

\* insert(key, value, overwrite) on the tree t: the tree afterwards and the
\* error returned.
insert(t, key, val, overwrite) ==
    IF key.nil THEN [tree |-> t, err |-> "ErrNilKey"]
    ELSE IF keyLen(key) > maxKeyBytes THEN [tree |-> t, err |-> "ErrKeyTooLarge"]
    ELSE IF valueTooLarge(val) THEN [tree |-> t, err |-> "ErrValueTooLarge"]
    ELSE IF empty(t)
    THEN LET nr == newRecordNode(t.blobs, key.b, val.b)
         IN [tree |-> Tree(<<nr.node>>, 1, 1, nr.store), err |-> "nil"]
    ELSE IF Len(t.root[1].key) > 0 /\ Len(longestCommonPrefix(t.root[1].key, key.b)) = 0
    THEN LET nr == newRecordNode(t.blobs, key.b, val.b)
             newRoot == addChild(addChild(NewNode(<<>>), t.root[1]), nr.node)
         IN [tree |-> Tree(<<newRoot>>, t.numNodes + 2, t.numRecords + 1, nr.store),
             err |-> "nil"]
    ELSE LET r == insertLoop(t.root[1], key.b, val.b, overwrite, TRUE, t.blobs)
         IN IF r.err # "nil" THEN [tree |-> t, err |-> r.err]
            ELSE [tree |-> Tree(<<r.node>>, t.numNodes + r.dn, t.numRecords + r.dr, r.store),
                  err |-> "nil"]

\* The descent loop of findNodeAndParent: the error, and the path (child
\* indexes from the root) of the node found; its parent is the node at the
\* path without its last index.
RECURSIVE findLoop(_, _, _)
findLoop(current, key, isRoot) ==
    LET prefix == longestCommonPrefix(current.key, key)
        prefixLen == Len(prefix)
        notFound == [err |-> "ErrKeyNotFound", path |-> <<>>]
    IN IF prefixLen = 0 /\ ~isRoot THEN notFound
       ELSE IF prefixLen # Len(current.key) THEN notFound
       ELSE IF prefixLen = Len(key) THEN [err |-> "nil", path |-> <<>>]
       ELSE IF ~hasChildren(current) THEN notFound
       ELSE LET rest == DropPrefix(key, Len(prefix))
                next == findCompatibleChild(current, rest)
            IN IF next = 0 THEN notFound
               ELSE LET r == findLoop(current.children[next], rest, FALSE)
                    IN IF r.err # "nil" THEN notFound
                       ELSE [err |-> "nil", path |-> <<next>> \o r.path]

findNodeAndParent(t, key) ==
    IF key.nil THEN [err |-> "ErrNilKey", path |-> <<>>]
    ELSE IF empty(t) THEN [err |-> "ErrKeyNotFound", path |-> <<>>]
    ELSE findLoop(t.root[1], key.b, TRUE)

RECURSIVE NodeAt(_, _)
NodeAt(n, path) == IF path = <<>> THEN n ELSE NodeAt(n.children[Head(path)], Tail(path))

RECURSIVE ReplaceAt(_, _, _)
ReplaceAt(n, path, new) ==
    IF path = <<>> THEN new
    ELSE ReplaceChild(n, Head(path), ReplaceAt(n.children[Head(path)], Tail(path), new))

\* A faulty Get that returns the value of any node it finds, record or not.
doGet_ignoresRecordFlag(t, key) ==
    IF key.nil THEN [err |-> "ErrNilKey", ret |-> <<>>]
    ELSE LET f == findNodeAndParent(t, key)
         IN IF f.err # "nil" THEN [err |-> f.err, ret |-> <<>>]
            ELSE [err |-> "nil", ret |-> value(NodeAt(t.root[1], f.path), t.blobs)]

\* Get(key): the error and the value returned.
doGet(t, key) ==
    IF key.nil THEN [err |-> "ErrNilKey", ret |-> <<>>]
    ELSE LET f == findNodeAndParent(t, key)
         IN IF f.err # "nil" THEN [err |-> f.err, ret |-> <<>>]
            ELSE LET node == NodeAt(t.root[1], f.path)
                 IN IF ~node.isRecord THEN [err |-> "ErrKeyNotFound", ret |-> <<>>]
                    ELSE [err |-> "nil", ret |-> value(node, t.blobs)]

\* A faulty deleteRootNode that demotes the root whatever its children.
deleteRootNode_alwaysDemotes(t) ==
    LET dv == deleteValue([t.root[1] EXCEPT !.isRecord = FALSE], t.blobs)
    IN Tree(<<dv.node>>, t.numNodes, t.numRecords - 1, dv.store)

deleteRootNode(t) ==
    LET r == t.root[1]
    IN IF isLeaf(r) THEN clear(t)
       ELSE IF numChildren(r) = 1
       THEN Tree(<<prependKey(r.children[1], r.key)>>, t.numNodes - 1, t.numRecords - 1, t.blobs)
       ELSE LET dv == deleteValue([r EXCEPT !.isRecord = FALSE], t.blobs)
            IN Tree(<<dv.node>>, t.numNodes, t.numRecords - 1, dv.store)

\* Delete(key): the tree afterwards and the error returned.
doDelete(t, key) ==
    IF key.nil THEN [tree |-> t, err |-> "ErrNilKey"]
    ELSE IF empty(t) THEN [tree |-> t, err |-> "ErrKeyNotFound"]
    ELSE IF keyLen(key) > maxKeyBytes THEN [tree |-> t, err |-> "ErrKeyTooLarge"]
    ELSE LET f == findNodeAndParent(t, key)
         IN IF f.err # "nil" THEN [tree |-> t, err |-> f.err]
            ELSE LET delNode == NodeAt(t.root[1], f.path)
                     parentPath == SubSeq(f.path, 1, Len(f.path) - 1)
                     parent == NodeAt(t.root[1], parentPath)
                     rm == removeChild(parent, delNode)
                     with(newParent, nn, nr, bs) ==
                         [tree |-> Tree(<<ReplaceAt(t.root[1], parentPath, newParent)>>, nn, nr, bs),
                          err |-> "nil"]
                 IN IF ~delNode.isRecord THEN [tree |-> t, err |-> "ErrKeyNotFound"]
                    ELSE IF f.path = <<>> THEN [tree |-> deleteRootNode(t), err |-> "nil"]
                    ELSE IF numChildren(delNode) = 1
                    THEN IF rm.err # "nil" THEN [tree |-> t, err |-> rm.err]
                         ELSE with(addChild(rm.node, prependKey(delNode.children[1], delNode.key)),
                                   t.numNodes - 1, t.numRecords - 1, t.blobs)
                    ELSE IF isLeaf(delNode)
                    THEN IF rm.err # "nil" THEN [tree |-> t, err |-> rm.err]
                         ELSE IF ~rm.node.isRecord /\ numChildren(rm.node) = 1
                         THEN with(shallowCopyFrom(rm.node, prependKey(rm.node.children[1], rm.node.key)),
                                   t.numNodes - 2, t.numRecords - 1, t.blobs)
                         ELSE with(rm.node, t.numNodes - 1, t.numRecords - 1, t.blobs)
                    ELSE LET dv == deleteValue([delNode EXCEPT !.isRecord = FALSE], t.blobs)
                         IN [tree |-> Tree(<<ReplaceAt(t.root[1], f.path, dv.node)>>,
                                           t.numNodes, t.numRecords - 1, dv.store),
                             err |-> "nil"]

(***************************************************************************)
(* RadixDB, the second tree: the same fields as an Arc, nodes that carry a *)
(* checksum, and an Insert that builds the new node before it descends.    *)
(***************************************************************************)
\* &node{key: key, isRecord: true}, its checksum not yet computed.
rdbNewNode(key, isRecord) ==
    [key |-> key, data |-> <<>>, isRecord |-> isRecord, blobValue |-> FALSE,
     children |-> <<>>, checksum |-> <<>>]

\* A faulty setValue whose inline limit is one byte short.
rdbSetValue_inlineBelowThreshold(n, bs, v) ==
    IF Len(v) < inlineValueThreshold
    THEN [node |-> [n EXCEPT !.data = v, !.blobValue = FALSE], store |-> bs]
    ELSE LET p == put(bs, v)
         IN [node |-> [n EXCEPT !.data = p.id, !.blobValue = TRUE], store |-> p.store]

\* The node's setValue of RadixDB: the value inline up to
\* inlineValueThreshold bytes, else its blob id with the value written to
\* the reference-counted store; the record flag and the checksum are left to
\* the caller.
rdbSetValue(n, bs, v) ==
    IF Len(v) <= inlineValueThreshold
    THEN [node |-> [n EXCEPT !.data = v, !.blobValue = FALSE], store |-> bs]
    ELSE LET p == put(bs, v)
         IN [node |-> [n EXCEPT !.data = p.id, !.blobValue = TRUE], store |-> p.store]

\* splitNode of RadixDB, as seen from the slot that holds current.
rdbSplitNode(current, newNode, commonPrefix) ==
    LET cur == setKey(current, DropPrefix(current.key, Len(commonPrefix)))
        new == setKey(newNode, DropPrefix(newNode.key, Len(commonPrefix)))
    IN updateChecksum(addChild(addChild(rdbNewNode(commonPrefix, FALSE), cur), new))

\* The descent loop of Insert from the node current; newNode carries the
\* part of the key that remains.  current is shared with its parent's child
\* list, so a key it is given before the parent is relinked is the key the
\* parent's removeChild searches with: old is current as the parent sees it
\* at that moment, node the subtree that is linked in its place.
RECURSIVE rdbInsertLoop(_, _, _, _, _)
rdbInsertLoop(current, newNode, val, isRoot, bs) ==
    LET prefix == longestCommonPrefix(current.key, newNode.key)
        prefixLen == Len(prefix)
        res(n, o, rl, e, dn, dr, st) ==
            [node |-> n, old |-> o, relink |-> rl, err |-> e, dn |-> dn, dr |-> dr, store |-> st]
    IN IF prefixLen = Len(current.key) /\ prefixLen = Len(newNode.key)
       THEN IF current.isRecord
            THEN res(current, current, "none", "ErrDuplicateKey", 0, 0, bs)
            ELSE LET sv == rdbSetValue([current EXCEPT !.isRecord = TRUE], bs, val)
                 IN res(updateChecksum(sv.node), current, "none", "nil", 0, 1, sv.store)
       ELSE IF prefixLen = Len(newNode.key) /\ prefixLen < Len(current.key)
       THEN LET cur == setKey(current, DropPrefix(current.key, Len(newNode.key)))
            IN res(addChild(newNode, cur), cur, IF isRoot THEN "none" ELSE "checked",
                   "nil", 1, 1, bs)
       ELSE IF prefixLen > 0 /\ prefixLen < Len(current.key)
       THEN res(rdbSplitNode(current, newNode, prefix),
                setKey(current, DropPrefix(current.key, prefixLen)),
                IF isRoot THEN "none" ELSE "unchecked", "nil", 2, 1, bs)
       ELSE LET rest == DropPrefix(newNode.key, prefixLen)
                next == findCompatibleChild(current, rest)
                new == setKey(newNode, rest)
            IN IF next = 0
               THEN IF ~isRoot \/ (Len(current.key) = 0 /\ hasChildren(current))
                       \/ Len(current.key) = prefixLen
                    THEN res(addChild(current, new), current, "none", "nil", 1, 1, bs)
                    ELSE res(updateChecksum(addChild(addChild(rdbNewNode(prefix, FALSE),
                                                             current), new)),
                             current, "none", "nil", 2, 1, bs)
               ELSE LET r == rdbInsertLoop(current.children[next], new, val, FALSE, bs)
                        seen == ReplaceChild(current, next, r.old)
                        rm == removeChild(seen, r.old)
                    IN IF r.relink = "none"
                       THEN [r EXCEPT !.node = ReplaceChild(current, next, r.node),
                                      !.old = current]
                       ELSE IF r.relink = "checked" /\ rm.err # "nil"
                       THEN res(seen, current, "none", rm.err, 0, 0, r.store)
                       ELSE [r EXCEPT !.node = addChild(rm.node, r.node), !.old = current,
                                      !.relink = "none"]

\* RadixDB.Insert(key, value) on the tree t: the tree afterwards and the
\* error returned.
rdbInsert(t, key, val) ==
    IF key.nil THEN [tree |-> t, err |-> "ErrNilKey"]
    ELSE IF keyLen(key) > maxKeyBytes THEN [tree |-> t, err |-> "ErrKeyTooLarge"]
    ELSE IF valueTooLarge(val) THEN [tree |-> t, err |-> "ErrValueTooLarge"]
    ELSE LET sv == rdbSetValue(rdbNewNode(key.b, TRUE), t.blobs, val.b)
             newNode == updateChecksum(sv.node)
         IN IF empty(t)
            THEN [tree |-> Tree(<<newNode>>, 1, 1, sv.store), err |-> "nil"]
            ELSE LET r == rdbInsertLoop(t.root[1], newNode, val.b, TRUE, sv.store)
                 IN [tree |-> Tree(<<r.node>>, t.numNodes + r.dn, t.numRecords + r.dr, r.store),
                     err |-> r.err]

\* The node's value of RadixDB: the inline bytes, or the blob's bytes.
rdbValue(n, bs) == IF n.blobValue THEN get(bs, n.data) ELSE n.data

\* RadixDB.Get without the checksum verification of the node found.
rdbGet_skipsChecksum(t, key) ==
    IF key.nil THEN [err |-> "ErrNilKey", ret |-> <<>>]
    ELSE LET f == findNodeAndParent(t, key)
         IN IF f.err # "nil" THEN [err |-> f.err, ret |-> <<>>]
            ELSE LET node == NodeAt(t.root[1], f.path)
                 IN IF ~node.isRecord THEN [err |-> "ErrKeyNotFound", ret |-> <<>>]
                    ELSE [err |-> "nil", ret |-> rdbValue(node, t.blobs)]

\* RadixDB.Get(key): the error and the value returned.
rdbGet(t, key) ==
    IF key.nil THEN [err |-> "ErrNilKey", ret |-> <<>>]
    ELSE LET f == findNodeAndParent(t, key)
         IN IF f.err # "nil" THEN [err |-> f.err, ret |-> <<>>]
            ELSE LET node == NodeAt(t.root[1], f.path)
                 IN IF ~node.isRecord THEN [err |-> "ErrKeyNotFound", ret |-> <<>>]
                    ELSE IF ~verifyChecksum(node)
                    THEN [err |-> "ErrInvalidChecksum", ret |-> <<>>]
                    ELSE [err |-> "nil", ret |-> rdbValue(node, t.blobs)]

\* Delete of the leaf node under parent, after removeChild gave rm: the
\* parent left with one child is replaced by that child.
rdbDeleteLeaf(t, parentPath, parent, rm, node) ==
    LET bs == IF node.blobValue THEN release(t.blobs, node.data) ELSE t.blobs
        onlyChild == rm.node.children[1]
        merged ==
            IF numChildren(rm.node) # 1 THEN rm.node
            ELSE IF parentPath = <<>> THEN prependKey(onlyChild, parent.key)
            ELSE shallowCopyFrom(rm.node,
                     IF hasChildren(onlyChild) \/ onlyChild.isRecord
                     THEN prependKey(onlyChild, parent.key) ELSE onlyChild)
    IN IF node.blobValue /\ Len(node.data) # blobIDLen
       THEN [tree |-> Tree(<<ReplaceAt(t.root[1], parentPath, rm.node)>>, t.numNodes,
                           t.numRecords - 1, t.blobs),
             err |-> "ErrInvalidBlobID"]
       ELSE [tree |-> Tree(<<ReplaceAt(t.root[1], parentPath, merged)>>, t.numNodes,
                           t.numRecords - 1, bs),
             err |-> "nil"]

\* RadixDB.Delete(key): the tree afterwards and the error returned.
rdbDelete(t, key) ==
    IF key.nil THEN [tree |-> t, err |-> "ErrNilKey"]
    ELSE IF keyLen(key) > maxKeyBytes THEN [tree |-> t, err |-> "ErrKeyTooLarge"]
    ELSE LET f == findNodeAndParent(t, key)
         IN IF f.err # "nil" THEN [tree |-> t, err |-> f.err]
            ELSE LET node == NodeAt(t.root[1], f.path)
                     parentPath == SubSeq(f.path, 1, Len(f.path) - 1)
                     parent == NodeAt(t.root[1], parentPath)
                     rm == removeChild(parent, node)
                     onlyChild == prependKey(node.children[1], node.key)
                     rmKept == removeChild(ReplaceAt(parent, <<f.path[Len(f.path)]>>,
                                                     ReplaceChild(node, 1, onlyChild)), node)
                 IN IF ~node.isRecord THEN [tree |-> t, err |-> "ErrKeyNotFound"]
                    ELSE IF ~verifyChecksum(node) THEN [tree |-> t, err |-> "ErrInvalidChecksum"]
                    ELSE IF ~hasChildren(node)
                    THEN IF f.path = <<>> THEN [tree |-> clear(t), err |-> "nil"]
                         ELSE IF rm.err # "nil" THEN [tree |-> t, err |-> rm.err]
                         ELSE rdbDeleteLeaf(t, parentPath, parent, rm, node)
                    ELSE IF numChildren(node) = 1
                    THEN IF f.path = <<>>
                         THEN [tree |-> Tree(<<onlyChild>>, t.numNodes, t.numRecords - 1, t.blobs),
                               err |-> "nil"]
                         ELSE IF rmKept.err # "nil"
                         THEN [tree |-> Tree(<<ReplaceAt(t.root[1], parentPath, rmKept.node)>>,
                                             t.numNodes, t.numRecords, t.blobs),
                               err |-> rmKept.err]
                         ELSE [tree |-> Tree(<<ReplaceAt(t.root[1], parentPath,
                                                         addChild(rmKept.node, onlyChild))>>,
                                             t.numNodes, t.numRecords - 1, t.blobs),
                               err |-> "nil"]
                    ELSE IF node.blobValue /\ Len(node.data) # blobIDLen
                    THEN [tree |-> t, err |-> "ErrInvalidBlobID"]
                    ELSE [tree |-> Tree(<<ReplaceAt(t.root[1], f.path,
                                            [node EXCEPT !.blobValue = FALSE, !.isRecord = FALSE,
                                                         !.data = <<>>])>>,
                                        t.numNodes, t.numRecords - 1,
                                        IF node.blobValue THEN release(t.blobs, node.data)
                                        ELSE t.blobs),
                          err |-> "nil"]

(***************************************************************************)
(* The Arc as a state machine: one action per public operation.  last      *)
(* records the latest call, its arguments and what it returned, prev the   *)
(* tree as it was when that call was made.                                 *)
(***************************************************************************)
Cur == Tree(root, numNodes, numRecords, blobs)

NoValue == BytesValue(<<>>)

Call(op, key, val, err, ret) == [op |-> op, key |-> key, val |-> val, err |-> err, ret |-> ret]

RECURSIVE SumRefs(_, _)
SumRefs(bs, ids) ==
    IF ids = {} THEN 0
    ELSE LET id == CHOOSE x \in ids : TRUE
         IN bs[id].refCount + SumRefs(bs, ids \ {id})

WithinBounds(t) ==
    /\ t.numRecords <= MaxRecords
    /\ SumRefs(t.blobs, DOMAIN t.blobs) <= MaxBlobRefs

Idle == Call("idle", NilKey, NoValue, "nil", <<>>)

Become(t) ==
    /\ last = Idle
    /\ WithinBounds(t)
    /\ root' = t.root
    /\ numNodes' = t.numNodes
    /\ numRecords' = t.numRecords
    /\ blobs' = t.blobs
    /\ prev' = Cur
    /\ UNCHANGED <<concVars, memVars>>

\* The goroutines, and what a goroutine holds while it makes no call.
Threads == {1, 2}

NoCall == [op |-> "none", key |-> NilKey, val |-> NoValue]

NoRes == [err |-> "nil", ret |-> <<>>]

NoSnap == Tree(<<>>, 0, 0, EmptyBlobs)

Init ==
    /\ root = <<>>
    /\ numNodes = 0
    /\ numRecords = 0
    /\ blobs = EmptyBlobs
    /\ last = Idle
    /\ prev = clear(Cur)
    /\ pc = [t \in Threads |-> "idle"]
    /\ call = [t \in Threads |-> NoCall]
    /\ out = [t \in Threads |-> NoRes]
    /\ snap = [t \in Threads |-> NoSnap]
    /\ mu = [writer |-> 0, readers |-> {}]
    /\ heap = <<>>
    /\ held = {}
    /\ hist = <<>>

Add(key, val) ==
    LET r == insert(Cur, key, val, FALSE)
    IN /\ Become(r.tree)
       /\ last' = Call("Add", key, val, r.err, <<>>)

Put(key, val) ==
    LET r == insert(Cur, key, val, TRUE)
    IN /\ Become(r.tree)
       /\ last' = Call("Put", key, val, r.err, <<>>)

Get(key) ==
    LET r == doGet(Cur, key)
    IN /\ last = Idle
       /\ last' = Call("Get", key, NoValue, r.err, r.ret)
       /\ UNCHANGED <<root, numNodes, numRecords, blobs, prev>>
       /\ UNCHANGED <<concVars, memVars>>

Delete(key) ==
    LET r == doDelete(Cur, key)
    IN /\ Become(r.tree)
       /\ last' = Call("Delete", key, NoValue, r.err, <<>>)

ArcLen ==
    /\ last = Idle
    /\ last' = Call("Len", NilKey, NoValue, "nil", <<numRecords>>)
    /\ UNCHANGED <<root, numNodes, numRecords, blobs, prev>>
    /\ UNCHANGED <<concVars, memVars>>

\* The call returns to its caller, which may then make the next call.
Return ==
    /\ last # Idle
    /\ last' = Idle
    /\ prev' = Cur
    /\ UNCHANGED <<root, numNodes, numRecords, blobs>>
    /\ UNCHANGED <<concVars, memVars>>

Next ==
    \/ \E in \in InsertInputs : Add(in[1], in[2])
    \/ \E in \in InsertInputs : Put(in[1], in[2])
    \/ \E key \in KeyInputs : Get(key)
    \/ \E key \in KeyInputs : Delete(key)
    \/ ArcLen
    \/ Return

Spec == Init /\ [][Next]_vars

(***************************************************************************)
(* What a tree holds, read off its nodes without the lookup code.          *)
(***************************************************************************)
\* The paths (child indexes from the root) of all nodes under n.
RECURSIVE PathsOf(_)
PathsOf(n) ==
    {<<>>} \cup UNION {{<<i>> \o p : p \in PathsOf(n.children[i])} : i \in 1..Len(n.children)}

NodePaths(t) == IF t.root = <<>> THEN {} ELSE PathsOf(t.root[1])

RecordPaths(t) == {p \in NodePaths(t) : NodeAt(t.root[1], p).isRecord}

\* The full key of the node at path: the labels from the root joined.
RECURSIVE FullKey(_, _)
FullKey(n, path) ==
    IF path = <<>> THEN n.key ELSE n.key \o FullKey(n.children[Head(path)], Tail(path))

\* The keys the tree holds a record for.
RecordKeys(t) == {FullKey(t.root[1], p) : p \in RecordPaths(t)}

\* The keys of the non-record nodes.
BranchKeys(t) == {FullKey(t.root[1], p) : p \in NodePaths(t) \ RecordPaths(t)}

\* The node that carries the full key k (one of them).
NodeOfKey(t, k) ==
    NodeAt(t.root[1], CHOOSE p \in NodePaths(t) : FullKey(t.root[1], p) = k)

\* The tree without the stored bytes: labels, record flags and children.
RECURSIVE Shape(_)
Shape(n) ==
    [key |-> n.key, isRecord |-> n.isRecord,
     children |-> [i \in 1..Len(n.children) |-> Shape(n.children[i])]]

TreeShape(t) == IF t.root = <<>> THEN <<>> ELSE <<Shape(t.root[1])>>

\* A key argument the API accepts: 1 to maxKeyBytes bytes.
ValidKey(k) == ~k.nil /\ keyLen(k) >= 1 /\ keyLen(k) <= maxKeyBytes

IsBlobValue(v) == ~v.huge /\ Len(v.b) > inlineValueThreshold

\* Every valid key of the model other than k reads the same in both trees.
OthersUnchanged(k) ==
    \A b \in KeyBytes \ {<<>>, k.b} : doGet(Cur, BytesKey(b)) = doGet(prev, BytesKey(b))

(***************************************************************************)
(* C1: after a successful Put(k, v) with a key of 1 to 65535 bytes, Get(k) *)
(* returns exactly v, for inline and blob values, whether k was new, a     *)
(* record, or a non-record branch node.                                    *)
(***************************************************************************)
C1_PutThenGet ==
    (last.op = "Put" /\ last.err = "nil" /\ ValidKey(last.key))
        => doGet(Cur, last.key) = [err |-> "nil", ret |-> last.val.b]

\* A blob value was put on a key that was a non-record branch node.
C1_Witness ==
    /\ last.op = "Put" /\ last.err = "nil" /\ ValidKey(last.key)
    /\ IsBlobValue(last.val)
    /\ last.key.b \in BranchKeys(prev)
    /\ doGet(Cur, last.key).ret = last.val.b

(***************************************************************************)
(* C2: Add(k, v) returns ErrDuplicateKey if and only if k is a record; on  *)
(* a key that is a non-record branch node it succeeds, makes the node a    *)
(* record with value v, adds one to the record count and leaves the node   *)
(* count alone.                                                            *)
(***************************************************************************)
C2_AddDuplicateIffRecord ==
    (last.op = "Add" /\ ValidKey(last.key) /\ ~valueTooLarge(last.val))
        => /\ (last.err = "ErrDuplicateKey") <=> (last.key.b \in RecordKeys(prev))
           /\ (last.key.b \in BranchKeys(prev) /\ last.key.b \notin RecordKeys(prev))
                => /\ last.err = "nil"
                   /\ doGet(Cur, last.key) = [err |-> "nil", ret |-> last.val.b]
                   /\ numRecords = prev.numRecords + 1
                   /\ numNodes = prev.numNodes

(***************************************************************************)
(* C3: a successful Delete(k) removes exactly one record: the record count *)
(* drops by one, Get(k) returns ErrKeyNotFound, and every other key reads  *)
(* as before, whatever the shape of the node deleted.                      *)
(***************************************************************************)
C3_DeleteRemovesOne ==
    (last.op = "Delete" /\ last.err = "nil" /\ ValidKey(last.key))
        => /\ numRecords = prev.numRecords - 1
           /\ doGet(Cur, last.key).err = "ErrKeyNotFound"
           /\ RecordKeys(Cur) = RecordKeys(prev) \ {last.key.b}
           /\ OthersUnchanged(last.key)

\* The record deleted was a non-root node with two children.
C3_Witness ==
    /\ last.op = "Delete" /\ last.err = "nil" /\ ValidKey(last.key)
    /\ LET f == findNodeAndParent(prev, last.key)
       IN f.err = "nil" /\ f.path # <<>>
            /\ numChildren(NodeAt(prev.root[1], f.path)) = 2
    /\ Cardinality(RecordKeys(Cur)) = 3

(***************************************************************************)
(* C4: Put(k, v2) on a key that is a record succeeds and overwrites in     *)
(* place: Get(k) returns v2, and the record count, the node count, the     *)
(* shape of the tree and the value of every other key are unchanged.       *)
(***************************************************************************)
C4_PutOverwritesInPlace ==
    (last.op = "Put" /\ ValidKey(last.key) /\ ~valueTooLarge(last.val)
        /\ last.key.b \in RecordKeys(prev))
        => /\ last.err = "nil"
           /\ doGet(Cur, last.key) = [err |-> "nil", ret |-> last.val.b]
           /\ numRecords = prev.numRecords
           /\ numNodes = prev.numNodes
           /\ TreeShape(Cur) = TreeShape(prev)
           /\ OthersUnchanged(last.key)

\* A record that shared its blob with another key was overwritten with an
\* inline value, and the other key still reads the blob.
C4_Witness ==
    /\ last.op = "Put" /\ last.err = "nil" /\ ValidKey(last.key)
    /\ last.key.b \in RecordKeys(prev)
    /\ NodeOfKey(prev, last.key.b).blobValue
    /\ ~IsBlobValue(last.val)
    /\ \E b \in KeyBytes \ {<<>>, last.key.b} :
          /\ doGet(prev, BytesKey(b)).err = "nil"
          /\ doGet(prev, BytesKey(b)) = doGet(prev, last.key)
          /\ doGet(Cur, BytesKey(b)) = doGet(prev, BytesKey(b))

(***************************************************************************)
(* C5: Get(k) and Delete(k) return ErrKeyNotFound exactly when k is not a  *)
(* record (absent, a non-record branch node, a proper prefix or extension  *)
(* of stored keys, or the tree is empty), and then leave the tree as it    *)
(* was.                                                                    *)
(***************************************************************************)
C5_NotFoundIffNoRecord ==
    (last.op \in {"Get", "Delete"} /\ ValidKey(last.key))
        => /\ (last.err = "ErrKeyNotFound") <=> (last.key.b \notin RecordKeys(prev))
           /\ (last.err = "ErrKeyNotFound") => (Cur = prev)

\* Delete of a key whose node is a non-record branch node of the tree.
C5_Witness ==
    /\ last.op = "Delete" /\ last.err = "ErrKeyNotFound" /\ ValidKey(last.key)
    /\ last.key.b \in BranchKeys(prev)
    /\ Cur = prev
    /\ numRecords = 3

(***************************************************************************)
(* C6: Add, Put, Get and Delete return ErrNilKey for a nil key and for an  *)
(* empty key, and no record with an empty key is ever stored.              *)
(***************************************************************************)
C6_EmptyKeyRejected ==
    /\ (last.op \in {"Add", "Put", "Get", "Delete"} /\ keyLen(last.key) = 0)
          => (last.err = "ErrNilKey" /\ Cur = prev)
    /\ <<>> \notin RecordKeys(Cur)

(***************************************************************************)
(* The RadixDB as a state machine over the same fields.                    *)
(***************************************************************************)
Insert(key, val) ==
    LET r == rdbInsert(Cur, key, val)
    IN /\ Become(r.tree)
       /\ last' = Call("Insert", key, val, r.err, <<>>)

RdbLen ==
    /\ last = Idle
    /\ last' = Call("Len", NilKey, NoValue, "nil", <<numRecords>>)
    /\ UNCHANGED <<root, numNodes, numRecords, blobs, prev>>
    /\ UNCHANGED <<concVars, memVars>>

RdbGet(key) ==
    LET r == rdbGet(Cur, key)
    IN /\ last = Idle
       /\ last' = Call("Get", key, NoValue, r.err, r.ret)
       /\ UNCHANGED <<root, numNodes, numRecords, blobs, prev>>
       /\ UNCHANGED <<concVars, memVars>>

RdbDelete(key) ==
    LET r == rdbDelete(Cur, key)
    IN /\ Become(r.tree)
       /\ r.tree.numNodes <= MaxNodes
       /\ last' = Call("Delete", key, NoValue, r.err, <<>>)

NextRdb ==
    \/ \E in \in RdbInsertInputs : Insert(in[1], in[2])
    \/ RdbLen
    \/ Return

SpecRdb == Init /\ [][NextRdb]_vars

(***************************************************************************)
(* C7: every Add, Put, Insert or Delete that returns an error leaves the   *)
(* tree, the counters and the blob store exactly as they were; an insert   *)
(* rejected as a duplicate whose value is longer than 32 bytes creates no  *)
(* blob entry and changes no reference count.                              *)
(***************************************************************************)
C7_FailedCallChangesNothing ==
    (last.op \in {"Add", "Put", "Insert", "Delete"} /\ last.err # "nil") => (Cur = prev)

(***************************************************************************)
(* C8: the record count equals the number of record-flagged nodes, which   *)
(* equals the number of distinct keys stored, and the node count equals    *)
(* the number of nodes reachable from the root.                            *)
(***************************************************************************)
C8_CountersMatchTree ==
    /\ numRecords = Cardinality(RecordPaths(Cur))
    /\ Cardinality(RecordPaths(Cur)) = Cardinality(RecordKeys(Cur))
    /\ numNodes = Cardinality(NodePaths(Cur))

\* The number of record nodes of the tree whose value is the blob id.
Referencing(t, id) ==
    Cardinality({p \in RecordPaths(t) :
                    NodeAt(t.root[1], p).blobValue /\ NodeAt(t.root[1], p).data = id})

\* The blob ids the tree's nodes hold.
HeldIDs(t) ==
    {NodeAt(t.root[1], p).data : p \in {q \in RecordPaths(t) : NodeAt(t.root[1], q).blobValue}}

\* The reference count the store keeps for id, 0 when it has no entry.
RefCount(t, id) == IF id \in DOMAIN t.blobs THEN t.blobs[id].refCount ELSE 0

(***************************************************************************)
(* C9: after any sequence of Add and Delete calls, every blob id has a     *)
(* reference count equal to the number of record nodes that reference it,  *)
(* and an entry exists only while that number is positive; each Delete of  *)
(* a blob-valued record lowers the count by one, whatever the node's       *)
(* shape (leaf, one child, several children, root).                        *)
(***************************************************************************)
C9_RefCountsMatchReferences ==
    \A id \in DOMAIN blobs \cup HeldIDs(Cur) : RefCount(Cur, id) = Referencing(Cur, id)

\* The node a lookup of key k reaches in the tree t.
FoundNode(t, k) == NodeAt(t.root[1], findNodeAndParent(t, k).path)

\* The blob id under which a value is stored, none for an inline value.
BlobIDsOf(v) == IF IsBlobValue(v) THEN {sha256(v.b)} ELSE {}

C11_InlineUpTo32Bytes ==
    (last.op = "Insert" /\ last.err = "nil" /\ ValidKey(last.key))
        => LET n == FoundNode(Cur, last.key)
               v == last.val.b
           IN IF Len(v) <= 32
              THEN ~n.blobValue /\ n.data = v /\ blobs = prev.blobs
              ELSE /\ n.blobValue /\ Len(n.data) = 32
                   /\ n.data \in DOMAIN blobs /\ blobs[n.data].value = v
                   /\ blobs # prev.blobs

\* Both sides of the boundary are held at once: a 32-byte value inline and a
\* 33-byte value behind a blob id.
C11_Witness ==
    /\ last.op = "Insert" /\ last.err = "nil" /\ ValidKey(last.key)
    /\ Len(last.val.b) = 32
    /\ ~FoundNode(Cur, last.key).blobValue
    /\ \E b \in KeyBytes \ {<<>>, last.key.b} :
          /\ b \in RecordKeys(Cur)
          /\ FoundNode(Cur, BytesKey(b)).blobValue
          /\ Len(blobs[FoundNode(Cur, BytesKey(b)).data].value) = 33

(***************************************************************************)
(* Concurrent callers of one Arc.  Each goroutine makes one call at a      *)
(* time; a call is a sequence of steps: taking the lock, the section that  *)
(* reads or writes the fields, and the deferred release.  pc is the step a *)
(* goroutine is in, call its arguments, out what it returns, snap the tree *)
(* as it was when the goroutine took the read lock.                        *)
(***************************************************************************)
ConcKeys == {NilKey, BytesKey(<<97>>), BytesKey(<<97, 98>>)}

ConcValues == {BytesValue(<<115>>), BytesValue(<<116>>)}

\* sync.RWMutex: Lock is granted when nobody holds the mutex, RLock when no
\* writer holds it.
lockFree(m) == m.writer = 0 /\ m.readers = {}

rlockFree(m) == m.writer = 0

\* What the write section of the call c makes of the tree t.
writeResult(c, t) ==
    IF c.op \in {"Add", "Put"} THEN insert(t, c.key, c.val, c.op = "Put")
    ELSE doDelete(t, c.key)

\* The trees an access by goroutine t may see: the tree as it is, and, while
\* another goroutine is inside its write section, the tree that write makes.
Visible(t) ==
    {Cur} \cup {writeResult(call[u], Cur).tree : u \in {x \in Threads \ {t} : pc[x] = "writing"}}

Step(t, p, c, o) ==
    /\ pc' = [pc EXCEPT ![t] = p]
    /\ call' = [call EXCEPT ![t] = c]
    /\ out' = [out EXCEPT ![t] = o]

TreeUnchanged == UNCHANGED <<root, numNodes, numRecords, blobs, last, prev, heap, held, hist>>

\* Add and Put: a.mu.Lock().
ConcInsertLock(t, op, key, val) ==
    /\ pc[t] = "idle"
    /\ lockFree(mu)
    /\ mu' = [mu EXCEPT !.writer = t]
    /\ Step(t, "writing", [op |-> op, key |-> key, val |-> val], NoRes)
    /\ UNCHANGED snap
    /\ TreeUnchanged

\* The write section of Add, Put and Delete: insert, or Delete's body.
ConcWrite(t) ==
    LET r == writeResult(call[t], Cur)
    IN /\ pc[t] = "writing"
       /\ WithinBounds(r.tree)
       /\ root' = r.tree.root
       /\ numNodes' = r.tree.numNodes
       /\ numRecords' = r.tree.numRecords
       /\ blobs' = r.tree.blobs
       /\ Step(t, "written", call[t], [err |-> r.err, ret |-> <<>>])
       /\ UNCHANGED <<last, prev, snap, mu, heap, held, hist>>

\* The deferred a.mu.Unlock(), and the return.
ConcUnlock(t) ==
    /\ pc[t] = "written"
    /\ mu' = [mu EXCEPT !.writer = 0]
    /\ Step(t, "idle", NoCall, NoRes)
    /\ UNCHANGED snap
    /\ TreeUnchanged

\* Get and Delete with a nil key return before any lock is taken.
ConcNilKey(t, op) ==
    /\ pc[t] = "idle"
    /\ Step(t, "returned", [op |-> op, key |-> NilKey, val |-> NoValue],
            [err |-> "ErrNilKey", ret |-> <<>>])
    /\ UNCHANGED <<snap, mu>>
    /\ TreeUnchanged

\* A faulty Get and Len that enter the read section without the lock.
ConcRLock_withoutLock(t, op, key) ==
    /\ pc[t] = "idle"
    /\ ~key.nil
    /\ mu' = [mu EXCEPT !.readers = @ \cup {t}]
    /\ snap' = [snap EXCEPT ![t] = Cur]
    /\ Step(t, "reading", [op |-> op, key |-> key, val |-> NoValue], NoRes)
    /\ TreeUnchanged

\* Get and Len: a.mu.RLock().
ConcRLock(t, op, key) ==
    /\ pc[t] = "idle"
    /\ ~key.nil
    /\ rlockFree(mu)
    /\ mu' = [mu EXCEPT !.readers = @ \cup {t}]
    /\ snap' = [snap EXCEPT ![t] = Cur]
    /\ Step(t, "reading", [op |-> op, key |-> key, val |-> NoValue], NoRes)
    /\ TreeUnchanged

\* The read section of Get (findNodeAndParent and value) and of Len.
ConcRead(t) ==
    /\ pc[t] = "reading"
    /\ \E seen \in Visible(t) :
          Step(t, "read", call[t],
               IF call[t].op = "Get" THEN doGet(seen, call[t].key)
               ELSE [err |-> "nil", ret |-> <<seen.numRecords>>])
    /\ UNCHANGED <<snap, mu>>
    /\ TreeUnchanged

\* The deferred a.mu.RUnlock(), and the return.
ConcRUnlock(t) ==
    /\ pc[t] = "read"
    /\ mu' = [mu EXCEPT !.readers = @ \ {t}]
    /\ snap' = [snap EXCEPT ![t] = NoSnap]
    /\ Step(t, "idle", NoCall, NoRes)
    /\ TreeUnchanged

\* Delete with a key: the call of a.empty() that precedes a.mu.Lock().
ConcDeleteBegin(t, key) ==
    /\ pc[t] = "idle"
    /\ ~key.nil
    /\ Step(t, "emptyCheck", [op |-> "Delete", key |-> key, val |-> NoValue], NoRes)
    /\ UNCHANGED <<snap, mu>>
    /\ TreeUnchanged

\* a.empty() returns, then the key's length is checked.
ConcDeleteEmptyCheck(t) ==
    /\ pc[t] = "emptyCheck"
    /\ \E seen \in Visible(t) :
          IF empty(seen)
          THEN Step(t, "returned", call[t], [err |-> "ErrKeyNotFound", ret |-> <<>>])
          ELSE IF keyLen(call[t].key) > maxKeyBytes
          THEN Step(t, "returned", call[t], [err |-> "ErrKeyTooLarge", ret |-> <<>>])
          ELSE Step(t, "wantLock", call[t], NoRes)
    /\ UNCHANGED <<snap, mu>>
    /\ TreeUnchanged

\* Delete: a.mu.Lock().
ConcDeleteLock(t) ==
    /\ pc[t] = "wantLock"
    /\ lockFree(mu)
    /\ mu' = [mu EXCEPT !.writer = t]
    /\ Step(t, "writing", call[t], NoRes)
    /\ UNCHANGED snap
    /\ TreeUnchanged

\* A call that took no lock returns.
ConcReturn(t) ==
    /\ pc[t] = "returned"
    /\ Step(t, "idle", NoCall, NoRes)
    /\ UNCHANGED <<snap, mu>>
    /\ TreeUnchanged

NextConc ==
    \E t \in Threads :
        \/ \E op \in {"Add", "Put"}, key \in ConcKeys, val \in ConcValues :
              ConcInsertLock(t, op, key, val)
        \/ ConcWrite(t)
        \/ ConcUnlock(t)
        \/ \E op \in {"Get", "Delete"} : ConcNilKey(t, op)
        \/ \E key \in ConcKeys : ConcRLock(t, "Get", key)
        \/ ConcRLock(t, "Len", HugeKey)
        \/ ConcRead(t)
        \/ ConcRUnlock(t)
        \/ \E key \in ConcKeys \cup {HugeKey} : ConcDeleteBegin(t, key)
        \/ ConcDeleteEmptyCheck(t)
        \/ ConcDeleteLock(t)
        \/ ConcReturn(t)

SpecConc == Init /\ [][NextConc]_vars

(***************************************************************************)
(* C12: every read or write of the tree's fields made by a public          *)
(* operation happens while the operation holds the lock, shared for Get    *)
(* and Len, exclusive for Add, Put and Delete, so that no read or write    *)
(* overlaps a write by another goroutine.                                  *)
(***************************************************************************)
C12_AccessOnlyUnderLock ==
    \A t \in Threads :
        /\ pc[t] = "reading" => t \in mu.readers
        /\ pc[t] = "writing" => mu.writer = t
        /\ pc[t] = "emptyCheck" => (t \in mu.readers \/ mu.writer = t)
        /\ \A u \in Threads \ {t} :
              ~(pc[u] = "writing" /\ pc[t] \in {"reading", "writing", "emptyCheck"})

(***************************************************************************)
(* C13: a Get that runs concurrently with writers returns the value or     *)
(* ErrKeyNotFound that the tree determined when the Get took the shared    *)
(* lock, and no write section is in progress while the Get reads.          *)
(***************************************************************************)
C13_GetSeesSnapshot ==
    \A t \in Threads :
        /\ (pc[t] = "read" /\ call[t].op = "Get")
              => out[t] = doGet(snap[t], call[t].key)
        /\ (pc[t] \in {"reading", "read"} /\ call[t].op = "Get")
              => /\ snap[t] = Cur
                 /\ \A u \in Threads \ {t} : pc[u] \notin {"writing", "written"}

\* A Get has read a value while a Delete of the same key waits for the lock.
C13_Witness ==
    \E t \in Threads, u \in Threads :
        /\ pc[t] = "read" /\ call[t].op = "Get" /\ out[t].err = "nil"
        /\ out[t].ret = <<116>>
        /\ pc[u] = "wantLock" /\ call[u].key = call[t].key

(***************************************************************************)
(* The first RadixDB (src/radixdb.go), with byte slices as references: a   *)
(* slice is the address of a buffer in heap, a node's value field holds    *)
(* the slice it was given (data is <<address>>, or <<>> for nil), and Get  *)
(* returns the slice the node holds.                                       *)
(***************************************************************************)
MaxBuffers == 3

AliasKeys == {NilKey, BytesKey(<<97>>), BytesKey(<<97, 98>>), BytesKey(<<98>>)}

AliasContents == {<<115>>, <<116>>}

rdb0Empty(t) == t.root = <<>> /\ t.numNodes = 0

\* The descent loop of Insert from the node current: the node that takes
\* current's slot, the error and the increment of numNodes.
RECURSIVE rdb0InsertLoop(_, _, _)
rdb0InsertLoop(current, newNode, isRoot) ==
    LET prefix == longestCommonPrefix(current.key, newNode.key)
        prefixLen == Len(prefix)
    IN IF prefixLen = Len(current.key) /\ prefixLen = Len(newNode.key)
       THEN IF current.isRecord
            THEN [node |-> current, err |-> "ErrDuplicateKey", dn |-> 0]
            ELSE [node |-> [current EXCEPT !.data = newNode.data, !.isRecord = TRUE],
                  err |-> "nil", dn |-> 1]
       ELSE IF prefixLen = Len(newNode.key) /\ prefixLen < Len(current.key)
       THEN LET cur == [current EXCEPT !.key = DropPrefix(current.key, Len(newNode.key))]
            IN [node |-> [newNode EXCEPT !.children = Append(newNode.children, cur)],
                err |-> "nil", dn |-> 1]
       ELSE IF prefixLen > 0 /\ prefixLen < Len(current.key)
       THEN LET cur == [current EXCEPT !.key = DropPrefix(current.key, prefixLen)]
                new == [newNode EXCEPT !.key = DropPrefix(newNode.key, prefixLen)]
            IN [node |-> [NewNode(prefix) EXCEPT !.children = <<cur, new>>],
                err |-> "nil", dn |-> 1]
       ELSE LET rest == DropPrefix(newNode.key, prefixLen)
                next == findCompatibleChild(current, rest)
                new == [newNode EXCEPT !.key = rest]
            IN IF next = 0
               THEN IF ~isRoot \/ (Len(current.key) = 0 /\ hasChildren(current))
                       \/ Len(current.key) = prefixLen
                    THEN [node |-> [current EXCEPT !.children = Append(current.children, new)],
                          err |-> "nil", dn |-> 1]
                    ELSE [node |-> [NewNode(prefix) EXCEPT !.children = <<current, new>>],
                          err |-> "nil", dn |-> 1]
               ELSE LET r == rdb0InsertLoop(current.children[next], new, FALSE)
                    IN [r EXCEPT !.node = ReplaceChild(current, next, r.node)]

\* Insert(key, value), value being the slice at address addr.
rdb0Insert(t, key, addr) ==
    IF key.nil THEN [tree |-> t, err |-> "ErrNilKey"]
    ELSE LET newNode == [NewNode(key.b) EXCEPT !.data = <<addr>>, !.isRecord = TRUE]
         IN IF rdb0Empty(t)
            THEN [tree |-> [t EXCEPT !.root = <<newNode>>, !.numNodes = 1], err |-> "nil"]
            ELSE LET r == rdb0InsertLoop(t.root[1], newNode, TRUE)
                 IN [tree |-> [t EXCEPT !.root = <<r.node>>, !.numNodes = @ + r.dn],
                     err |-> r.err]

\* Get(key): the error and the slice returned (<<>> is nil).
rdb0Get(t, key) ==
    IF key.nil THEN [err |-> "ErrNilKey", ret |-> <<>>]
    ELSE IF rdb0Empty(t) THEN [err |-> "ErrKeyNotFound", ret |-> <<>>]
    ELSE LET f == findLoop(t.root[1], key.b, TRUE)
         IN IF f.err # "nil" THEN [err |-> "ErrKeyNotFound", ret |-> <<>>]
            ELSE IF NodeAt(t.root[1], f.path).isRecord
            THEN [err |-> "nil", ret |-> NodeAt(t.root[1], f.path).data]
            ELSE [err |-> "ErrKeyNotFound", ret |-> <<>>]

\* The bytes behind the slices of a tree: each node's data replaced by the
\* content of the buffer it points to.
RECURSIVE ResolveNode(_, _)
ResolveNode(n, h) ==
    [n EXCEPT !.data = IF n.data = <<>> THEN <<>> ELSE h[n.data[1]],
              !.children = [i \in 1..Len(n.children) |-> ResolveNode(n.children[i], h)]]

Resolve(t, h) ==
    [t EXCEPT !.root = IF t.root = <<>> THEN <<>> ELSE <<ResolveNode(t.root[1], h)>>]

AliasIdle == last = Idle /\ UNCHANGED concVars

\* The caller makes a buffer with the content and inserts it.
AliasInsert(key, content) ==
    LET addr == Len(heap) + 1
        r == rdb0Insert(Cur, key, addr)
    IN /\ AliasIdle
       /\ Len(heap) < MaxBuffers
       /\ heap' = Append(heap, content)
       /\ root' = r.tree.root
       /\ numNodes' = r.tree.numNodes
       /\ last' = Call("Insert", key, BytesValue(content), r.err, <<>>)
       /\ prev' = Resolve(Cur, heap)
       /\ UNCHANGED <<numRecords, blobs, held, hist>>

\* The caller gets a key and keeps the slice returned.
AliasGet(key) ==
    LET r == rdb0Get(Cur, key)
    IN /\ AliasIdle
       /\ held' = held \cup {r.ret[i] : i \in 1..Len(r.ret)}
       /\ last' = Call("Get", key, NoValue, r.err, r.ret)
       /\ prev' = Resolve(Cur, heap)
       /\ UNCHANGED <<root, numNodes, numRecords, blobs, heap, hist>>

\* The caller overwrites the first byte of a slice that Get returned.
AliasMutate(addr) ==
    /\ AliasIdle
    /\ addr \in held
    /\ heap[addr][1] # 0
    /\ heap' = [heap EXCEPT ![addr][1] = 0]
    /\ last' = Call("Mutate", NilKey, NoValue, "nil", <<addr>>)
    /\ prev' = Resolve(Cur, heap)
    /\ UNCHANGED <<root, numNodes, numRecords, blobs, held, hist>>

AliasReturn ==
    /\ last # Idle
    /\ last' = Idle
    /\ prev' = Resolve(Cur, heap)
    /\ UNCHANGED <<root, numNodes, numRecords, blobs, heap, held, hist>>
    /\ UNCHANGED concVars

NextAlias ==
    \/ \E key \in AliasKeys, content \in AliasContents : AliasInsert(key, content)
    \/ \E key \in AliasKeys : AliasGet(key)
    \/ \E addr \in 1..MaxBuffers : AliasMutate(addr)
    \/ AliasReturn

SpecAlias == Init /\ [][NextAlias]_vars

(***************************************************************************)
(* C14: the byte slice that Get returns is a copy owned by the caller:     *)
(* after the caller writes to it, every node of the tree still holds the   *)
(* bytes it held before.                                                   *)
(***************************************************************************)
C14_ReturnedSliceIsACopy ==
    last.op = "Mutate" => Resolve(Cur, heap) = prev

(***************************************************************************)
(* RadixDB with nodes whose stored checksum no longer verifies.  The calls *)
(* are Insert, Get and Delete; Tamper stands for a node changed behind the *)
(* API, as the tests do by assigning to a node's fields after              *)
(* updateChecksum or by building a node without calling it.                *)
(***************************************************************************)
FaultKeys == {<<97>>, <<97, 97>>, <<97, 98>>}
FaultValues == {Rep(116, inlineValueThreshold), Rep(120, inlineValueThreshold + 1)}
FaultKeyInputs == {BytesKey(k) : k \in FaultKeys} \cup {NilKey}

\* The stored checksums a tampered node can be left with: unset, or the
\* checksum of content the node does not have.
staleChecksums(n) == {<<>>, calculateChecksum([n EXCEPT !.isRecord = ~n.isRecord])}

FaultInsert(key, val) ==
    /\ rdbInsert(Cur, key, val).tree.numNodes <= MaxNodes
    /\ Insert(key, val)

Tamper ==
    /\ last = Idle
    /\ root # <<>>
    /\ \E path \in RecordPaths(Cur) :
         \E c \in staleChecksums(NodeAt(root[1], path)) :
            root' = <<ReplaceAt(root[1], path, [NodeAt(root[1], path) EXCEPT !.checksum = c])>>
    /\ prev' = [Cur EXCEPT !.root = root']
    /\ UNCHANGED <<numNodes, numRecords, blobs, last>>
    /\ UNCHANGED <<concVars, memVars>>

NextFault ==
    \/ \E key \in FaultKeys, val \in FaultValues : FaultInsert(BytesKey(key), BytesValue(val))
    \/ \E key \in FaultKeyInputs : RdbGet(key)
    \/ \E key \in FaultKeyInputs : RdbDelete(key)
    \/ Tamper
    \/ Return

SpecFault == Init /\ [][NextFault]_vars

\* A lookup of the call's key reaches a record node of the tree before the call.
ReachesRecord ==
    /\ ValidKey(last.key)
    /\ findNodeAndParent(prev, last.key).err = "nil"
    /\ FoundNode(prev, last.key).isRecord

(***************************************************************************)
(* C15: a RadixDB.Get or RadixDB.Delete that reaches a record node whose   *)
(* stored checksum does not match the checksum recomputed from its key,    *)
(* data and flags returns ErrInvalidChecksum, with no value returned and   *)
(* nothing deleted, and leaves the tree, the counters and the blob store   *)
(* as they were.                                                           *)
(***************************************************************************)
C15_ChecksumMismatchRejected ==
    (last.op \in {"Get", "Delete"} /\ ReachesRecord
        /\ ~verifyChecksum(FoundNode(prev, last.key)))
        => /\ last.err = "ErrInvalidChecksum"
           /\ last.ret = <<>>
           /\ Cur = prev

\* Delete of a blob-valued record with two children whose stored checksum is
\* that of other content: the record, the counters and the blob stay.
C15_Witness ==
    /\ last.op = "Delete" /\ last.err = "ErrInvalidChecksum" /\ ReachesRecord
    /\ FoundNode(prev, last.key).blobValue
    /\ FoundNode(prev, last.key).checksum # <<>>
    /\ numChildren(FoundNode(prev, last.key)) = 2
    /\ Cur = prev
    /\ numRecords = 3

(***************************************************************************)
(* C16: Add, Put and Delete reject a key longer than 65535 bytes with      *)
(* ErrKeyTooLarge whatever the tree holds, the empty tree included, and    *)
(* Add and Put reject a value longer than 2^32-1 bytes with                *)
(* ErrValueTooLarge.                                                       *)
(***************************************************************************)
C16_OversizeRejected ==
    /\ (last.op \in {"Add", "Put", "Delete"} /\ ~last.key.nil
            /\ keyLen(last.key) > maxKeyBytes)
         => (last.err = "ErrKeyTooLarge" /\ Cur = prev)
    /\ (last.op \in {"Add", "Put"} /\ ~last.key.nil
            /\ keyLen(last.key) <= maxKeyBytes /\ valueTooLarge(last.val))
         => (last.err = "ErrValueTooLarge" /\ Cur = prev)

(***************************************************************************)
(* Serialization.  Bytes are the integers 0..255; a CRC-32 register is the *)
(* set of the positions of its one bits, so that exclusive-or is the       *)
(* symmetric difference and no integer beyond a byte is needed.            *)
(***************************************************************************)
magicByte == 65
fileFormatVersion == 1
sizeOfUint8 == 1
sizeOfUint16 == 2
sizeOfUint32 == 4
sizeOfUint64 == 8
checksumLen == sizeOfUint32
minNodeBytesLen ==
    sizeOfUint8 + sizeOfUint16 + sizeOfUint16 + sizeOfUint32 + sizeOfUint64 + sizeOfUint64
arcHeaderBytesLen == sizeOfUint8 + sizeOfUint8 + sizeOfUint8 + checksumLen
flagIsRecord == 1
flagHasBlob == 2
arcFileClosed == 0
arcFileOpened == 1

RECURSIVE Pow2(_)
Pow2(n) == IF n = 0 THEN 1 ELSE 2 * Pow2(n - 1)

Xor(a, b) == {i \in 0..31 : (i \in a) # (i \in b)}
byteBits(b) == {i \in 0..7 : (b \div Pow2(i)) % 2 = 1}

\* The reversed polynomial 0xEDB88320 of CRC-32 (IEEE).
crcPolynomial == {31, 30, 29, 27, 26, 24, 23, 21, 20, 19, 15, 9, 8, 5}

crcShift(c) ==
    IF 0 \in c THEN {i \in 0..31 : ((i + 1) \in c) # (i \in crcPolynomial)}
    ELSE {i \in 0..31 : (i + 1) \in c}

\* One byte of input: eight shifts of the register.
crcByte(c) == crcShift(crcShift(crcShift(crcShift(crcShift(crcShift(crcShift(crcShift(c))))))))

\* The table entry of an index byte, given as its bits: the register after
\* eight shifts.
crcTable(idx) == crcByte(idx)

\* The register after one more byte b: table[(c ^ b) & 0xFF] ^ (c >> 8).
crcStep(c, b) ==
    Xor({j - 8 : j \in c \ (0..7)}, crcTable(Xor(c \cap (0..7), byteBits(b))))

\* The register after the bytes of src, starting from c.  Each step's
\* register is a 32-bit value before the next byte is taken.
RECURSIVE crcUpdate(_, _)
crcUpdate(c, src) ==
    IF src = <<>> THEN c
    ELSE LET next == crcStep(c, Head(src))
         IN IF next \subseteq 0..31 THEN crcUpdate(next, Tail(src)) ELSE {}

\* computeChecksum(src): the CRC-32 of src as a register.
computeChecksum(src) == (0..31) \ crcUpdate(0..31, src)

RECURSIVE SumBits(_, _, _)
SumBits(c, from, i) ==
    IF i = 8 THEN 0
    ELSE (IF (from + i) \in c THEN Pow2(i) ELSE 0) + SumBits(c, from, i + 1)

\* binary.Write(LittleEndian) of a uint32 register.
writeChecksum(c) == [j \in 1..4 |-> SumBits(c, 8 * (j - 1), 0)]

\* binary.Write(LittleEndian) of a number in size bytes.
RECURSIVE littleEndian(_, _)
littleEndian(n, size) ==
    IF size = 0 THEN <<>> ELSE <<n % 256>> \o littleEndian(n \div 256, size - 1)

\* binary.Read(LittleEndian): the number in the bytes of src.
RECURSIVE readLittleEndian(_)
readLittleEndian(src) ==
    IF src = <<>> THEN 0 ELSE Head(src) + 256 * readLittleEndian(Tail(src))

boolByte(b) == IF b THEN 1 ELSE 0

\* node.serialize without the checksum verification at its start.
serialize_withoutVerify(n) ==
    [bytes |-> writeChecksum(computeChecksum(
                   n.key \o n.data \o <<boolByte(n.isRecord)>> \o <<boolByte(n.blobValue)>>))
               \o littleEndian(Len(n.key), sizeOfUint64) \o n.key
               \o (IF n.isRecord THEN littleEndian(Len(n.data), sizeOfUint64) \o n.data
                   ELSE littleEndian(0, sizeOfUint64))
               \o littleEndian(Len(n.children), sizeOfUint64)
               \o [j \in 1..(sizeOfUint64 * Len(n.children)) |-> 0],
     err |-> "nil"]

\* node.serialize: the bytes and the error.  The checksum written is the
\* stored one, which after verification is the CRC-32 of the node's content.
serialize(n) ==
    IF ~verifyChecksum(n) THEN [bytes |-> <<>>, err |-> "ErrInvalidChecksum"]
    ELSE serialize_withoutVerify(n)

MaxSerChildren == 2
SerKeys == {<<>>, <<97>>, <<97, 98>>}
SerData == {<<>>, <<115>>, <<115, 116>>}

\* The stored checksum of a node: current, unset, or that of the node before
\* its record flag or its key was changed.
storedChecksum(kind, n) ==
    CASE kind = "current" -> calculateChecksum(n)
      [] kind = "unset" -> <<>>
      [] kind = "flag" -> calculateChecksum([n EXCEPT !.isRecord = ~n.isRecord])
      [] kind = "key" -> calculateChecksum([n EXCEPT !.key = <<98>> \o n.key])

SerNodes ==
    {[n EXCEPT !.checksum = storedChecksum(kind, n)] :
        kind \in {"current", "unset", "flag", "key"},
        n \in {[key |-> k, data |-> d, isRecord |-> r, blobValue |-> b,
                children |-> [j \in 1..c |-> rdbNewNode(<<97 + j>>, FALSE)], checksum |-> <<>>] :
                   k \in SerKeys, d \in SerData, r \in BOOLEAN, b \in BOOLEAN,
                   c \in 0..MaxSerChildren}}

SerializeNode(n) ==
    LET r == serialize(n)
    IN /\ last = Idle
       /\ last' = [op |-> "serialize", key |-> NilKey, val |-> n, err |-> r.err, ret |-> r.bytes]
       /\ UNCHANGED <<root, numNodes, numRecords, blobs, prev>>
       /\ UNCHANGED <<concVars, memVars>>

\* arcHeader.serialize: magic, version and status followed by their CRC-32.
arcHeaderSerialize(ah) ==
    LET buf == <<ah.magic, ah.version, ah.status>>
    IN buf \o writeChecksum(computeChecksum(buf))

\* newArcHeaderFromBytes(src): the header and the error.
newArcHeaderFromBytes(src) ==
    IF Len(src) # arcHeaderBytesLen
    THEN [header |-> [magic |-> 0, version |-> 0, status |-> 0], err |-> "ErrCorrupted"]
    ELSE [header |-> [magic |-> src[1], version |-> src[2], status |-> src[3]], err |-> "nil"]

\* Header bytes: serialized headers with the right or another magic byte and
\* version, as they are, with a byte of the checksum changed, cut short, or
\* with a byte appended.
HeaderBytes ==
    UNION {LET b == arcHeaderSerialize([magic |-> m, version |-> v, status |-> st])
           IN {b, [b EXCEPT ![arcHeaderBytesLen] = (b[arcHeaderBytesLen] + 1) % 256],
               SubSeq(b, 1, arcHeaderBytesLen - 1), b \o <<0>>} :
              m \in {magicByte, magicByte + 1},
              v \in {fileFormatVersion, fileFormatVersion + 1},
              st \in {arcFileClosed, arcFileOpened}}

ParseHeader(src) ==
    LET r == newArcHeaderFromBytes(src)
    IN /\ last = Idle
       /\ last' = [op |-> "header", key |-> NilKey, val |-> src, err |-> r.err,
                   ret |-> r.header]
       /\ UNCHANGED <<root, numNodes, numRecords, blobs, prev>>
       /\ UNCHANGED <<concVars, memVars>>

\* makePersistentNode(n): the on-disk form of a node, its offsets unknown.
makePersistentNode(n) ==
    [flags |-> (IF n.isRecord THEN flagIsRecord ELSE 0) + (IF n.blobValue THEN flagHasBlob ELSE 0),
     numChildren |-> numChildren(n),
     keyLen |-> Len(n.key),
     dataLen |-> Len(n.data),
     firstChildOffset |-> 0,
     nextSiblingOffset |-> 0,
     key |-> n.key,
     data |-> n.data]

zeroPersistentNode ==
    [flags |-> 0, numChildren |-> 0, keyLen |-> 0, dataLen |-> 0, firstChildOffset |-> 0,
     nextSiblingOffset |-> 0, key |-> <<>>, data |-> <<>>]

\* persistentNode.isRecord: flags & flagIsRecord != 0.
pnIsRecord(pn) == (pn.flags \div flagIsRecord) % 2 = 1

\* persistentNode.serialize: the fixed-length fields, key, data and the
\* CRC-32 of all of them.
pnSerialize(pn) ==
    LET buf == <<pn.flags>> \o littleEndian(pn.numChildren, sizeOfUint16)
                   \o littleEndian(pn.keyLen, sizeOfUint16)
                   \o littleEndian(pn.dataLen, sizeOfUint32)
                   \o littleEndian(pn.firstChildOffset, sizeOfUint64)
                   \o littleEndian(pn.nextSiblingOffset, sizeOfUint64)
                   \o pn.key \o pn.data
    IN buf \o writeChecksum(computeChecksum(buf))

\* makePersistentNodeFromBytes(src): the node and the error.  The fields
\* read before a failure stay in the node returned with the error.
makePersistentNodeFromBytes(src) ==
    IF Len(src) < minNodeBytesLen THEN [pn |-> zeroPersistentNode, err |-> "ErrNodeCorrupted"]
    ELSE LET nodeData == SubSeq(src, 1, Len(src) - sizeOfUint32)
             wantChecksum == SubSeq(src, Len(src) - sizeOfUint32 + 1, Len(src))
             fixed == [zeroPersistentNode EXCEPT
                          !.flags = nodeData[1],
                          !.numChildren = readLittleEndian(SubSeq(nodeData, 2, 3)),
                          !.keyLen = readLittleEndian(SubSeq(nodeData, 4, 5)),
                          !.dataLen = readLittleEndian(SubSeq(nodeData, 6, 9)),
                          !.firstChildOffset = readLittleEndian(SubSeq(nodeData, 10, 17)),
                          !.nextSiblingOffset = readLittleEndian(SubSeq(nodeData, 18, 25))]
             remaining == Len(nodeData) - 25
             withKey == [fixed EXCEPT !.key = SubSeq(nodeData, 26, 25 + fixed.keyLen)]
         IN IF writeChecksum(computeChecksum(nodeData)) # wantChecksum
            THEN [pn |-> zeroPersistentNode, err |-> "ErrInvalidChecksum"]
            ELSE IF fixed.keyLen + fixed.dataLen # remaining
            THEN [pn |-> fixed, err |-> "ErrNodeCorrupted"]
            ELSE IF pnIsRecord(withKey)
            THEN [pn |-> [withKey EXCEPT !.data = SubSeq(nodeData, 26 + fixed.keyLen,
                                                         25 + fixed.keyLen + fixed.dataLen)],
                  err |-> "nil"]
            ELSE [pn |-> withKey, err |-> "nil"]

\* The (first child, next sibling) offsets given to a persistent node.
SerOffsets == {<<0, 0>>, <<128, 256>>, <<256, 0>>}

\* Persistent nodes: made from nodes with and without record flag, blob flag,
\* data and children, then given offsets.
PersistentNodes ==
    {[makePersistentNode(n) EXCEPT !.firstChildOffset = off[1], !.nextSiblingOffset = off[2]] :
        n \in {[key |-> k, data |-> d, isRecord |-> r, blobValue |-> b,
                children |-> [j \in 1..c |-> NewNode(<<97 + j>>)]] :
                   k \in SerKeys, d \in SerData, r \in BOOLEAN, b \in BOOLEAN,
                   c \in 0..MaxSerChildren},
        off \in SerOffsets}

\* pn.serialize() followed by makePersistentNodeFromBytes.
PersistentRoundTrip(pn) ==
    LET r == makePersistentNodeFromBytes(pnSerialize(pn))
    IN /\ last = Idle
       /\ last' = [op |-> "roundtrip", key |-> NilKey, val |-> pn, err |-> r.err,
                   ret |-> r.pn]
       /\ UNCHANGED <<root, numNodes, numRecords, blobs, prev>>
       /\ UNCHANGED <<concVars, memVars>>

NextSer ==
    \/ \E n \in SerNodes : SerializeNode(n)
    \/ \E src \in HeaderBytes : ParseHeader(src)
    \/ \E pn \in PersistentNodes : PersistentRoundTrip(pn)
    \/ Return

SpecSer == Init /\ [][NextSer]_vars

(***************************************************************************)
(* C17: converting an in-memory node to its serialized form fails with     *)
(* ErrInvalidChecksum and produces no bytes whenever the node's stored     *)
(* checksum does not verify against its key, data and flags; a stored      *)
(* checksum that is unset counts as not verifying.                         *)
(***************************************************************************)
C17_SerializeVerifiesChecksum ==
    last.op = "serialize"
        => /\ (last.val.checksum = <<>> \/ last.val.checksum # calculateChecksum(last.val))
                => (last.err = "ErrInvalidChecksum" /\ last.ret = <<>>)
           /\ (last.val.checksum = calculateChecksum(last.val))
                => (last.err = "nil" /\ Len(last.ret) > 0)

\* A record node whose key was changed after its checksum was stored.
C17_Witness ==
    /\ last.op = "serialize" /\ last.err = "ErrInvalidChecksum" /\ last.ret = <<>>
    /\ last.val.isRecord /\ last.val.key = <<97, 98>>
    /\ last.val.checksum = calculateChecksum([last.val EXCEPT !.key = <<98, 97, 98>>])

\* A well-formed node is serialized in full.
C17_WitnessBytes ==
    /\ last.op = "serialize" /\ last.err = "nil"
    /\ last.val.isRecord /\ last.val.key = <<97>> /\ last.val.data = <<115>>
    /\ ~last.val.blobValue /\ last.val.children = <<>>
    /\ last.ret = <<50, 168, 114, 237>> \o <<1, 0, 0, 0, 0, 0, 0, 0, 97>>
            \o <<1, 0, 0, 0, 0, 0, 0, 0, 115>> \o <<0, 0, 0, 0, 0, 0, 0, 0>>

\* The header bytes pass the four checks: length, magic byte, format version
\* and trailing CRC-32 of the bytes before it.
HeaderWellFormed(src) ==
    /\ Len(src) = arcHeaderBytesLen
    /\ src[1] = magicByte
    /\ src[2] = fileFormatVersion
    /\ SubSeq(src, arcHeaderBytesLen - checksumLen + 1, arcHeaderBytesLen)
           = writeChecksum(computeChecksum(SubSeq(src, 1, arcHeaderBytesLen - checksumLen)))

(***************************************************************************)
(* C18: deserializing a file header rejects with ErrCorrupted every input  *)
(* of the wrong length, with an unknown magic byte, with an unknown format *)
(* version, or with a trailing CRC-32 that does not match the header bytes *)
(* before it; only a header passing all four checks is returned.           *)
(***************************************************************************)
C18_HeaderChecked ==
    last.op = "header"
        => /\ HeaderWellFormed(last.val) <=> (last.err = "nil")
           /\ ~HeaderWellFormed(last.val) => (last.err = "ErrCorrupted")

C19_RoundTripOfRecords ==
    (last.op = "roundtrip" /\ (pnIsRecord(last.val) \/ last.val.data = <<>>))
        => (last.err = "nil" /\ last.ret = last.val)

\* The (key, value) pairs the tree holds: for each record node the labels
\* from the root joined, and the value read from the node.
Pairs(t) ==
    {<<FullKey(t.root[1], p), value(NodeAt(t.root[1], p), t.blobs)>> : p \in RecordPaths(t)}

\* The pairs of a key-to-value map after the call on the map with pairs m.
MapAfter(m, c) ==
    IF c.op = "Delete" THEN {pr \in m : pr[1] # c.key.b}
    ELSE {pr \in m : pr[1] # c.key.b} \cup {<<c.key.b, c.val.b>>}

(***************************************************************************)
(* C20: the tree refines a key-to-value map.  The empty tree holds no      *)
(* pair, and every successful Add, Put or Delete changes the pairs of the  *)
(* record nodes as the call changes the map: so after any sequence of      *)
(* successful calls the keys of the record nodes are the keys inserted and *)
(* not since deleted, each with the value most recently written.           *)
(***************************************************************************)
C20_TreeRefinesMap ==
    /\ (root = <<>>) => (Pairs(Cur) = {})
    /\ (last.op \in {"Add", "Put", "Delete"} /\ last.err = "nil")
         => (Pairs(Cur) = MapAfter(Pairs(prev), last))

\* The children of n that findCompatibleChild could answer for key: those
\* sharing a non-empty prefix with it.
CompatibleChildren(n, key) ==
    {i \in 1..Len(n.children) : Len(longestCommonPrefix(n.children[i].key, key)) > 0}

(***************************************************************************)
(* C21: after every successful mutation no two children of a node have     *)
(* keys sharing a non-empty common prefix, so for any key at most one      *)
(* child of a node is compatible.                                          *)
(***************************************************************************)
C21_SiblingsShareNoPrefix ==
    \A p \in NodePaths(Cur) : LET n == NodeAt(root[1], p) IN
        /\ \A i, j \in 1..Len(n.children) :
              i # j => Len(longestCommonPrefix(n.children[i].key, n.children[j].key)) = 0
        /\ \A k \in KeyBytes : Cardinality(CompatibleChildren(n, k)) <= 1

\* A node with three children after an insert that split a node.
C21_Witness ==
    /\ last.op \in {"Add", "Put"} /\ last.err = "nil"
    /\ numNodes > prev.numNodes + 1
    /\ \E p \in NodePaths(Cur) :
          Len(NodeAt(root[1], p).children) >= 2 /\ Len(NodeAt(root[1], p).key) > 0

(***************************************************************************)
(* C22: after every successful mutation every node other than the root     *)
(* that is not a record has at least two children; a delete that leaves a  *)
(* non-record parent with a single child merges the two, the keys joined,  *)
(* in the same call.                                                       *)
(***************************************************************************)
C22_NoUnaryBranch ==
    \A p \in NodePaths(Cur) :
        (p # <<>> /\ ~NodeAt(root[1], p).isRecord) => numChildren(NodeAt(root[1], p)) >= 2

\* A leaf was deleted below a non-record parent, not the root, that had two
\* children: the parent's place is taken by the other child under the
\* joined key.
C22_Witness ==
    /\ last.op = "Delete" /\ last.err = "nil" /\ ValidKey(last.key)
    /\ numNodes = prev.numNodes - 2
    /\ Len(findNodeAndParent(prev, last.key).path) = 2
    /\ LET pp == SubSeq(findNodeAndParent(prev, last.key).path, 1, 1)
           before == NodeAt(prev.root[1], pp)
           after == NodeAt(root[1], pp)
       IN /\ ~before.isRecord /\ numChildren(before) = 2
          /\ \E i \in 1..2 : after.key = before.key \o before.children[i].key

\* The children enumerate in ascending byte-lexicographic order of their keys.
Ascending(children) ==
    \A i \in 1..(Len(children) - 1) : bytesCompare(children[i].key, children[i + 1].key) <= 0

(***************************************************************************)
(* C23: after every tree mutation (split, splice of a new parent,          *)
(* promotion of an only child, merge by shallow copy) each node's children *)
(* enumerate in ascending byte-lexicographic key order and its child count *)
(* is the number of children enumerated; an addChild or removeChild on a   *)
(* node of the tree between two calls, whatever the child's key, leaves    *)
(* them in that order, one more or one fewer.                              *)
(***************************************************************************)
C23_ChildrenSorted ==
    \A p \in NodePaths(Cur) : LET n == NodeAt(root[1], p) IN
        /\ Ascending(n.children)
        /\ numChildren(n) = Cardinality(DOMAIN n.children)
        /\ \A k \in (IF last = Idle THEN KeyBytes ELSE {}) :
              LET added == addChild(n, NewNode(k))
                  removed == removeChild(n, NewNode(k))
              IN /\ Ascending(added.children)
                 /\ numChildren(added) = numChildren(n) + 1
                 /\ Ascending(removed.node.children)
                 /\ numChildren(removed.node)
                        = numChildren(n) - (IF removed.err = "nil" THEN 1 ELSE 0)

\* A delete merged a parent with its only remaining child next to a sibling
\* of the parent: the merged node keeps the parent's place.
C23_Witness ==
    /\ last.op = "Delete" /\ last.err = "nil"
    /\ numNodes = prev.numNodes - 2
    /\ numChildren(root[1]) >= 2
    /\ \E i \in 1..numChildren(root[1]) : Len(root[1].children[i].key) = 2

(***************************************************************************)
(* RadixDB under Insert, Get and Delete alone.                             *)
(***************************************************************************)
NextRdbDel ==
    \/ \E key \in FaultKeys \cup {<<98>>}, val \in FaultValues :
          FaultInsert(BytesKey(key), BytesValue(val))
    \/ \E key \in FaultKeyInputs \cup {BytesKey(<<98>>)} : RdbGet(key)
    \/ \E key \in FaultKeyInputs \cup {BytesKey(<<98>>)} : RdbDelete(key)
    \/ Return

SpecRdbDel == Init /\ [][NextRdbDel]_vars

\* Every record node of the tree verifies its stored checksum.
RecordsVerify(t) == \A p \in RecordPaths(t) : verifyChecksum(NodeAt(t.root[1], p))

(***************************************************************************)
(* C24: after every successful mutation every record node's stored         *)
(* checksum is set and equals the checksum recomputed over its key, data,  *)
(* isRecord and isBlob; setValue, setKey, prependKey and shallowCopyFrom   *)
(* each leave the checksum of the node they change up to date.             *)
(***************************************************************************)
C24_ChecksumsUpToDate ==
    /\ RecordsVerify(Cur)
    /\ \A p \in RecordPaths(Cur) :
          LET n == NodeAt(root[1], p)
          IN /\ \A v \in FaultValues : verifyChecksum(rdbSetValue(n, blobs, v).node)
             /\ verifyChecksum(setKey(n, <<98>> \o n.key))
             /\ verifyChecksum(prependKey(n, <<98>>))
             /\ \A q \in RecordPaths(Cur) : verifyChecksum(shallowCopyFrom(n, NodeAt(root[1], q)))

\* The same without setValue: the tree's record nodes, and the nodes setKey,
\* prependKey and shallowCopyFrom leave.
C24_WithoutSetValue ==
    /\ RecordsVerify(Cur)
    /\ \A p \in RecordPaths(Cur) :
          LET n == NodeAt(root[1], p)
          IN /\ verifyChecksum(setKey(n, <<98>> \o n.key))
             /\ verifyChecksum(prependKey(n, <<98>>))
             /\ \A q \in RecordPaths(Cur) : verifyChecksum(shallowCopyFrom(n, NodeAt(root[1], q)))

\* The node at which the descent for key from n stops, and why: an exact
\* match, a key that is a proper prefix of the node's key ("splice"), a
\* partial match inside the node's key ("split"), or no compatible child
\* ("append").  rest is the part of the key that remains at that node.
RECURSIVE DescentFrom(_, _, _)
DescentFrom(n, key, path) ==
    LET prefixLen == Len(longestCommonPrefix(n.key, key))
        at(kind) == [kind |-> kind, path |-> path, rest |-> key, prefixLen |-> prefixLen]
        next == findCompatibleChild(n, DropPrefix(key, prefixLen))
    IN IF prefixLen = Len(n.key) /\ prefixLen = Len(key) THEN at("exact")
       ELSE IF prefixLen = Len(key) THEN at("splice")
       ELSE IF prefixLen < Len(n.key) THEN at(IF prefixLen > 0 THEN "split" ELSE "apart")
       ELSE IF next = 0 THEN at("append")
       ELSE DescentFrom(n.children[next], DropPrefix(key, prefixLen), Append(path, next))

\* An Add or Put with valid arguments on a tree that is not empty.
InsertIntoTree ==
    /\ last.op \in {"Add", "Put"} /\ ValidKey(last.key) /\ ~valueTooLarge(last.val)
    /\ prev.root # <<>>

(***************************************************************************)
(* C25: when the inserted key k shares with the current node c a prefix p  *)
(* with 0 < |p| < |c.key| and |p| < |k|, the insert replaces c, in its     *)
(* parent's child list or as root, by a new non-record node with key p     *)
(* whose only two children are c, its key shortened to the suffix after p, *)
(* and a new record leaf holding the rest of k; c's value and subtree and  *)
(* all the rest of the tree are unchanged, numNodes grows by 2 and         *)
(* numRecords by 1.                                                        *)
(***************************************************************************)
C25_SplitMakesBranch ==
    (InsertIntoTree /\ DescentFrom(prev.root[1], last.key.b, <<>>).kind = "split")
        => LET d == DescentFrom(prev.root[1], last.key.b, <<>>)
               c == NodeAt(prev.root[1], d.path)
               branch == NodeAt(root[1], d.path)
               short == [c EXCEPT !.key = DropPrefix(c.key, d.prefixLen)]
               leafKey == DropPrefix(d.rest, d.prefixLen)
           IN /\ last.err = "nil"
              /\ branch.key = SubSeq(c.key, 1, d.prefixLen)
              /\ ~branch.isRecord /\ branch.data = <<>> /\ ~branch.blobValue
              /\ numChildren(branch) = 2
              /\ \E i, j \in 1..2 :
                    /\ i # j
                    /\ branch.children[i] = short
                    /\ branch.children[j].key = leafKey
                    /\ branch.children[j].isRecord
                    /\ isLeaf(branch.children[j])
                    /\ value(branch.children[j], blobs) = last.val.b
              /\ value(short, blobs) = value(c, prev.blobs)
              /\ ReplaceAt(root[1], d.path, c) = prev.root[1]
              /\ numNodes = prev.numNodes + 2
              /\ numRecords = prev.numRecords + 1

\* A record node below the root was split.
C25_Witness ==
    /\ InsertIntoTree /\ last.err = "nil"
    /\ DescentFrom(prev.root[1], last.key.b, <<>>).kind = "split"
    /\ Len(DescentFrom(prev.root[1], last.key.b, <<>>).path) = 1
    /\ NodeAt(prev.root[1], DescentFrom(prev.root[1], last.key.b, <<>>).path).isRecord
    /\ numNodes = prev.numNodes + 2

\* A Delete with a valid key that a lookup in the tree before the call takes
\* to a record node with at least lo and at most hi children.
DeleteOfRecord(lo, hi) ==
    /\ last.op = "Delete" /\ ValidKey(last.key)
    /\ findNodeAndParent(prev, last.key).err = "nil"
    /\ FoundNode(prev, last.key).isRecord
    /\ numChildren(FoundNode(prev, last.key)) >= lo
    /\ numChildren(FoundNode(prev, last.key)) <= hi

(***************************************************************************)
(* C26: deleting a record node that has two or more children, root or not, *)
(* keeps the node in place as a non-record branch with its value cleared   *)
(* and its blob reference, if any, released; its key, its children and     *)
(* numNodes are unchanged and numRecords drops by 1.                       *)
(***************************************************************************)
C26_DeleteDemotesBranch ==
    DeleteOfRecord(2, MaxRecords + 1)
        => LET path == findNodeAndParent(prev, last.key).path
               old == NodeAt(prev.root[1], path)
               new == NodeAt(root[1], path)
               minus(id) == IF old.blobValue /\ id = old.data THEN 1 ELSE 0
           IN /\ last.err = "nil"
              /\ ~new.isRecord /\ new.data = <<>> /\ ~new.blobValue
              /\ new.key = old.key /\ new.children = old.children
              /\ ReplaceAt(root[1], path, old) = prev.root[1]
              /\ numNodes = prev.numNodes
              /\ numRecords = prev.numRecords - 1
              /\ \A id \in DOMAIN prev.blobs \cup DOMAIN blobs :
                    /\ RefCount(Cur, id) = RefCount(prev, id) - minus(id)
                    /\ id \in DOMAIN blobs => blobs[id].refCount > 0

\* A record below the root with two children and the only reference to a
\* blob was deleted: the blob's entry is gone.
C26_Witness ==
    /\ DeleteOfRecord(2, 2) /\ last.err = "nil"
    /\ findNodeAndParent(prev, last.key).path # <<>>
    /\ FoundNode(prev, last.key).blobValue
    /\ RefCount(prev, FoundNode(prev, last.key).data) = 1
    /\ FoundNode(prev, last.key).data \notin DOMAIN blobs
    /\ numRecords = prev.numRecords - 1

(***************************************************************************)
(* C27: deleting a record node that has exactly one child removes the node *)
(* and puts the child in its place, at the same position among the         *)
(* parent's children or as the new root, with the deleted node's key       *)
(* prepended to the child's key; the child's value, record flag and        *)
(* subtree are unchanged, and numNodes and numRecords each drop by 1.      *)
(***************************************************************************)
C27_DeletePromotesOnlyChild ==
    DeleteOfRecord(1, 1)
        => LET path == findNodeAndParent(prev, last.key).path
               old == NodeAt(prev.root[1], path)
               child == old.children[1]
               new == NodeAt(root[1], path)
           IN /\ last.err = "nil"
              /\ new = [child EXCEPT !.key = old.key \o child.key]
              /\ value(new, blobs) = value(child, prev.blobs)
              /\ ReplaceAt(root[1], path, old) = prev.root[1]
              /\ numNodes = prev.numNodes - 1
              /\ numRecords = prev.numRecords - 1

\* A record below the root, one of several children of the root, whose only
\* child is a record.
C27_Witness ==
    /\ DeleteOfRecord(1, 1) /\ last.err = "nil"
    /\ findNodeAndParent(prev, last.key).path # <<>>
    /\ FoundNode(prev, last.key).children[1].isRecord
    /\ numChildren(prev.root[1]) >= 2
    /\ numNodes = prev.numNodes - 1

\* A RadixDB.Delete with a valid key that a lookup in the tree before the
\* call takes to a verified record leaf whose parent is a record.
DeleteOfLeafUnderRecord ==
    /\ last.op = "Delete" /\ ValidKey(last.key)
    /\ findNodeAndParent(prev, last.key).err = "nil"
    /\ findNodeAndParent(prev, last.key).path # <<>>
    /\ FoundNode(prev, last.key).isRecord
    /\ verifyChecksum(FoundNode(prev, last.key))
    /\ isLeaf(FoundNode(prev, last.key))
    /\ LET path == findNodeAndParent(prev, last.key).path
       IN NodeAt(prev.root[1], SubSeq(path, 1, Len(path) - 1)).isRecord

(***************************************************************************)
(* C28: in RadixDB.Delete, removing a leaf never removes, replaces or      *)
(* alters its parent when the parent is itself a record: a parent record,  *)
(* root or not, left with exactly one child keeps its key, value and       *)
(* record flag, and Get of the parent's key still returns its value.       *)
(***************************************************************************)
C28_RecordParentKept ==
    DeleteOfLeafUnderRecord
        => LET path == findNodeAndParent(prev, last.key).path
               parentPath == SubSeq(path, 1, Len(path) - 1)
               parent == NodeAt(prev.root[1], parentPath)
               parentKey == BytesKey(FullKey(prev.root[1], parentPath))
               after == NodeAt(root[1], parentPath)
           IN /\ last.err = "nil"
              /\ after.key = parent.key
              /\ after.data = parent.data
              /\ after.isRecord /\ after.blobValue = parent.blobValue
              /\ rdbGet(Cur, parentKey) = rdbGet(prev, parentKey)
              /\ rdbGet(Cur, parentKey).err = "nil"

\* The same for a record parent that keeps two children or more, or none.
C28_RecordParentKeptUnlessUnary ==
    (DeleteOfLeafUnderRecord
        /\ LET path == findNodeAndParent(prev, last.key).path
           IN numChildren(NodeAt(prev.root[1], SubSeq(path, 1, Len(path) - 1))) # 2)
        => LET path == findNodeAndParent(prev, last.key).path
               parentPath == SubSeq(path, 1, Len(path) - 1)
               parent == NodeAt(prev.root[1], parentPath)
               parentKey == BytesKey(FullKey(prev.root[1], parentPath))
               after == NodeAt(root[1], parentPath)
           IN /\ last.err = "nil"
              /\ after.key = parent.key
              /\ after.data = parent.data
              /\ after.isRecord /\ after.blobValue = parent.blobValue
              /\ rdbGet(Cur, parentKey) = rdbGet(prev, parentKey)
              /\ rdbGet(Cur, parentKey).err = "nil"

(***************************************************************************)
(* C29: after any sequence of RadixDB.Insert and RadixDB.Delete calls      *)
(* numNodes equals the number of nodes reachable from the root.            *)
(***************************************************************************)
C29_NumNodesCountsNodes == numNodes = Cardinality(NodePaths(Cur))

(***************************************************************************)
(* The offset table of the persistence layer.  A node is named by its      *)
(* path from the root, as everywhere else in this module.                  *)
(***************************************************************************)
fileHeaderSize ==
    sizeOfUint8 + sizeOfUint8 + sizeOfUint8 + sizeOfUint8
        + sizeOfUint64 + sizeOfUint64 + sizeOfUint64 + sizeOfUint64 + sizeOfUint64
        + sizeOfUint64 + sizeOfUint64 + sizeOfUint64 + sizeOfUint64 + sizeOfUint32

\* The length of the bytes node.serializeWithoutKey writes when it does
\* not check the stored checksum: checksum, value length, value of a record,
\* child count and one reserved offset per child.
serializedSize(n) ==
    sizeOfUint32 + sizeOfUint64 + (IF n.isRecord THEN Len(n.data) ELSE 0)
        + sizeOfUint64 + sizeOfUint64 * Len(n.children)

\* node.serializeWithoutKey.  Its caller uses only the length of the bytes,
\* which is what size holds.
serializeWithoutKey(n) ==
    IF ~verifyChecksum(n) THEN [size |-> 0, err |-> "ErrInvalidChecksum"]
    ELSE [size |-> serializedSize(n), err |-> "nil"]

\* RadixDB.traverse with its stack: the nodes in the order the callback is
\* run on them.  The callback of buildOffsetTable never returns an error, so
\* the traversal always runs to the end.
RECURSIVE traverseLoop(_, _, _)
traverseLoop(rootNode, stack, visited) ==
    IF stack = <<>> THEN visited
    ELSE LET current == stack[Len(stack)]
             popped == SubSeq(stack, 1, Len(stack) - 1)
             n == NodeAt(rootNode, current)
             children == [i \in 1..Len(n.children) |-> Append(current, i)]
             reversed == [i \in 1..Len(children) |-> children[Len(children) + 1 - i]]
         IN traverseLoop(rootNode, popped \o reversed, Append(visited, current))

traverse(t) == IF t.root = <<>> THEN <<>> ELSE traverseLoop(t.root[1], <<<<>>>>, <<>>)

\* The callback of buildOffsetTable on the i-th visited node: a node that
\* fails to serialize is passed over without an entry and without an error.
RECURSIVE offsetTableFrom(_, _, _, _, _)
offsetTableFrom(t, visited, i, offsetTable, currentOffset) ==
    IF i > Len(visited) THEN offsetTable
    ELSE LET current == visited[i]
             rawNode == serializeWithoutKey(NodeAt(t.root[1], current))
         IN IF rawNode.err # "nil"
            THEN offsetTableFrom(t, visited, i + 1, offsetTable, currentOffset)
            ELSE offsetTableFrom(t, visited, i + 1,
                     [q \in DOMAIN offsetTable \cup {current} |->
                          IF q = current
                          THEN [offset |-> currentOffset, size |-> rawNode.size]
                          ELSE offsetTable[q]],
                     currentOffset + rawNode.size)

buildOffsetTable(t) ==
    [table |-> offsetTableFrom(t, traverse(t), 1, [q \in {} |-> 0], fileHeaderSize),
     err |-> "nil"]

BuildOffsetTable ==
    LET r == buildOffsetTable(Cur)
    IN /\ last = Idle
       /\ last' = Call("buildOffsetTable", NilKey, NoValue, r.err, <<r.table>>)
       /\ UNCHANGED <<root, numNodes, numRecords, blobs, prev>>
       /\ UNCHANGED <<concVars, memVars>>

NextOffsets ==
    \/ \E key \in FaultKeys \cup {<<98>>}, val \in FaultValues :
          FaultInsert(BytesKey(key), BytesValue(val))
    \/ \E key \in FaultKeyInputs \cup {BytesKey(<<98>>)} : RdbDelete(key)
    \/ BuildOffsetTable
    \/ Return

SpecOffsets == Init /\ [][NextOffsets]_vars

\* The nodes below n in depth-first pre-order: n, then the subtrees of its
\* children in sibling order.
RECURSIVE PreOrder(_, _)
PreOrderOfChildren(n, path, i) ==
    IF i > Len(n.children) THEN <<>>
    ELSE PreOrder(n.children[i], Append(path, i))

RECURSIVE PreOrderFrom(_, _, _)
PreOrderFrom(n, path, i) ==
    IF i > Len(n.children) THEN <<>>
    ELSE PreOrderOfChildren(n, path, i) \o PreOrderFrom(n, path, i + 1)

PreOrder(n, path) == <<path>> \o PreOrderFrom(n, path, 1)

PreOrderOf(t) == IF t.root = <<>> THEN <<>> ELSE PreOrder(t.root[1], <<>>)

\* The bytes the first i nodes of the order take up.
RECURSIVE SizeOfFirst(_, _, _)
SizeOfFirst(t, order, i) ==
    IF i = 0 THEN 0
    ELSE SizeOfFirst(t, order, i - 1) + serializedSize(NodeAt(t.root[1], order[i]))

\* The table gives the nodes of the order that have an entry offsets that
\* start at the header size and grow by the sizes of the nodes before them.
OffsetsContiguous(t, table, order) ==
    \A i \in 1..Len(order) :
        order[i] \in DOMAIN table =>
            /\ table[order[i]].offset = fileHeaderSize + SizeOfFirst(t, order, i - 1)
            /\ table[order[i]].size = serializedSize(NodeAt(t.root[1], order[i]))

(***************************************************************************)
(* C30: buildOffsetTable gives every node reachable from the root one      *)
(* entry; in depth-first pre-order the first node's offset is the file     *)
(* header size and each later node's offset is the previous node's offset  *)
(* plus the previous node's serialized size.                               *)
(***************************************************************************)
C30_OffsetsContiguous ==
    (last.op = "buildOffsetTable" /\ last.err = "nil") =>
        /\ DOMAIN last.ret[1] = NodePaths(Cur)
        /\ OffsetsContiguous(Cur, last.ret[1], PreOrderOf(Cur))

\* The same for the trees all of whose nodes verify their stored checksum.
C30_WhenAllNodesVerify ==
    (/\ last.op = "buildOffsetTable"
     /\ last.err = "nil"
     /\ \A p \in NodePaths(Cur) : verifyChecksum(NodeAt(root[1], p))) =>
        /\ DOMAIN last.ret[1] = NodePaths(Cur)
        /\ OffsetsContiguous(Cur, last.ret[1], PreOrderOf(Cur))

\* A table of a tree of four or more nodes, all with an entry, was built.
C30_FullTableBuilt ==
    /\ last.op = "buildOffsetTable"
    /\ Cardinality(NodePaths(Cur)) >= 4
    /\ DOMAIN last.ret[1] = NodePaths(Cur)

\* Some node reachable from the root fails to serialize.
SomeNodeFailsToSerialize(t) ==
    \E p \in NodePaths(t) : serializeWithoutKey(NodeAt(t.root[1], p)).err # "nil"

(***************************************************************************)
(* C31: buildOffsetTable returns an error and no table if serialization    *)
(* of any visited node fails; it never returns successfully with a table   *)
(* that omits a reachable node.                                            *)
(***************************************************************************)
C31_SerializeFailureReturned ==
    last.op = "buildOffsetTable" =>
        IF SomeNodeFailsToSerialize(Cur)
        THEN last.err # "nil" /\ DOMAIN last.ret[1] = {}
        ELSE last.err = "nil" /\ DOMAIN last.ret[1] = NodePaths(Cur)

\* The success half alone: without a failing node the table is complete.
C31_CompleteWithoutFailure ==
    (last.op = "buildOffsetTable" /\ ~SomeNodeFailsToSerialize(Cur)) =>
        last.err = "nil" /\ DOMAIN last.ret[1] = NodePaths(Cur)

(***************************************************************************)
(* A blob store by itself, under put and release.  hist is the sequence of *)
(* the calls made on it since it was created empty.                        *)
(***************************************************************************)
MaxBlobOps == 5

BlobValues == {Rep(120, inlineValueThreshold + 1), Rep(121, inlineValueThreshold + 1)}

\* The ids release is called with: those of the values, and a slice that is
\* not blobIDLen bytes long ("bogus").
BlobIds == {sha256(v) : v \in BlobValues} \cup {<<98, 111, 103, 117, 115>>}

BlobPut(v) ==
    LET r == put(blobs, v)
    IN /\ last = Idle
       /\ Len(hist) < MaxBlobOps
       /\ blobs' = r.store
       /\ prev' = Cur
       /\ last' = Call("put", NilKey, BytesValue(v), "nil", r.id)
       /\ hist' = Append(hist, [op |-> "put", value |-> v, id |-> r.id])
       /\ UNCHANGED <<root, numNodes, numRecords, heap, held>>
       /\ UNCHANGED concVars

BlobRelease(id) ==
    /\ last = Idle
    /\ Len(hist) < MaxBlobOps
    /\ blobs' = release(blobs, id)
    /\ prev' = Cur
    /\ last' = Call("release", NilKey, BytesValue(id), "nil", <<>>)
    /\ hist' = Append(hist, [op |-> "release", value |-> <<>>, id |-> id])
    /\ UNCHANGED <<root, numNodes, numRecords, heap, held>>
    /\ UNCHANGED concVars

NextBlobs ==
    \/ \E v \in BlobValues : BlobPut(v)
    \/ \E id \in BlobIds : BlobRelease(id)
    \/ Return

SpecBlobs == Init /\ [][NextBlobs]_vars

\* How many of the first n calls of the history are op calls with this id.
CallsOf(op, id, n) ==
    Cardinality({i \in 1..n : hist[i].op = op /\ hist[i].id = id})

\* No release of the id was made when as many releases as puts had been made.
ReleasedOnlyWhenPut(id) ==
    \A n \in 0..Len(hist) : CallsOf("release", id, n) <= CallsOf("put", id, n)

(***************************************************************************)
(* C32: every put of byte-identical values returns the same id; after K    *)
(* such puts and j <= K releases of that id the refcount is K - j and the  *)
(* entry is present iff j < K; a release of an unknown or malformed id     *)
(* leaves the store unchanged; no entry has a refcount below 1.            *)
(***************************************************************************)
C32_RefCountIsPutsMinusReleases ==
    /\ \A i, j \in DOMAIN hist :
          (hist[i].op = "put" /\ hist[j].op = "put" /\ hist[i].value = hist[j].value)
              => hist[i].id = hist[j].id
    /\ \A v \in BlobValues :
          LET id == sha256(v)
              K == CallsOf("put", id, Len(hist))
              j == CallsOf("release", id, Len(hist))
          IN ReleasedOnlyWhenPut(id) =>
                /\ (id \in DOMAIN blobs) <=> (j < K)
                /\ id \in DOMAIN blobs =>
                      blobs[id].refCount = K - j /\ blobs[id].value = v
    /\ (last.op = "release" /\ (Len(last.val.b) # blobIDLen \/ last.val.b \notin DOMAIN prev.blobs))
          => blobs = prev.blobs
    /\ \A id \in DOMAIN blobs : blobs[id].refCount >= 1

\* Two puts of one value and one release of its id have been made, in an
\* order that released only what was put, next to a release of the
\* malformed id and one of an id that was never put.
C32_Witness ==
    \E v \in BlobValues :
        /\ CallsOf("put", sha256(v), Len(hist)) = 2
        /\ CallsOf("release", sha256(v), Len(hist)) = 1
        /\ ReleasedOnlyWhenPut(sha256(v))
        /\ \E i \in DOMAIN hist : hist[i].op = "release" /\ Len(hist[i].id) # blobIDLen
        /\ \E i \in DOMAIN hist :
              hist[i].op = "release" /\ Len(hist[i].id) = blobIDLen /\ hist[i].id # sha256(v)

(***************************************************************************)
(* The radix tree of a set of keys: the one tree in which every node's key *)
(* is the longest prefix its keys share, a node is a record iff that       *)
(* prefix is one of the keys, and the children are the subtrees of the     *)
(* remaining keys grouped by their next byte, in ascending order.          *)
(***************************************************************************)
\* The length of the longest prefix all keys of S share.
SharedPrefixLen(S) ==
    LET k0 == CHOOSE k \in S : TRUE
        lens == {n \in 0..Len(k0) :
                    \A k \in S : Len(k) >= n /\ SubSeq(k, 1, n) = SubSeq(k0, 1, n)}
    IN CHOOSE n \in lens : \A m \in lens : m <= n

RECURSIVE Ascend(_)
Ascend(B) ==
    IF B = {} THEN <<>>
    ELSE LET b == CHOOSE x \in B : \A y \in B : x <= y
         IN <<b>> \o Ascend(B \ {b})

RECURSIVE RadixShape(_)
RadixShape(S) ==
    LET n == SharedPrefixLen(S)
        k0 == CHOOSE k \in S : TRUE
        prefix == SubSeq(k0, 1, n)
        rests == {DropPrefix(k, n) : k \in S \ {prefix}}
        firsts == Ascend({r[1] : r \in rests})
    IN [key |-> prefix, isRecord |-> prefix \in S,
        children |-> [i \in 1..Len(firsts) |->
                         RadixShape({r \in rests : r[1] = firsts[i]})]]

RECURSIVE ShapeSize(_)
SumSizes(children, i) ==
    IF i > Len(children) THEN 0 ELSE ShapeSize(children[i])

RECURSIVE SumSizesFrom(_, _)
SumSizesFrom(children, i) ==
    IF i > Len(children) THEN 0 ELSE SumSizes(children, i) + SumSizesFrom(children, i + 1)

ShapeSize(n) == 1 + SumSizesFrom(n.children, 1)

\* The tree is the radix tree of the keys it holds, and its counters are
\* that tree's.
IsRadixTreeOfItsKeys(t) ==
    IF RecordKeys(t) = {} THEN t.root = <<>> /\ t.numNodes = 0 /\ t.numRecords = 0
    ELSE /\ TreeShape(t) = <<RadixShape(RecordKeys(t))>>
         /\ t.numNodes = ShapeSize(RadixShape(RecordKeys(t)))
         /\ t.numRecords = Cardinality(RecordKeys(t))

(***************************************************************************)
(* C33: the shape of the tree (node keys, record flags, child order) and   *)
(* both counters depend only on the set of keys stored, not on the order   *)
(* of the Put, Add and Delete calls that produced it: every reachable tree *)
(* is the radix tree of its keys, with that tree's counters.               *)
(***************************************************************************)
C33_ShapeDependsOnKeysOnly == IsRadixTreeOfItsKeys(Cur)

\* The Arc when no call is given the empty key.
EmptyKey(k) == ~k.nil /\ ~k.huge /\ k.b = <<>>

NextValidKeys ==
    \/ \E in \in InsertInputs : ~EmptyKey(in[1]) /\ Add(in[1], in[2])
    \/ \E in \in InsertInputs : ~EmptyKey(in[1]) /\ Put(in[1], in[2])
    \/ \E key \in KeyInputs : ~EmptyKey(key) /\ Delete(key)
    \/ Return

SpecValidKeys == Init /\ [][NextValidKeys]_vars

\* Without the empty key every reachable tree is the radix tree of its keys.
C33_ShapeOfValidKeys == IsRadixTreeOfItsKeys(Cur)

(***************************************************************************)
(* C34: in every reachable state each node without children is a record,   *)
(* and the root, when it is not a record, has at least two children; hence *)
(* a tree holding one key is a single record root and every non-empty tree *)
(* contains at least one record.                                           *)
(***************************************************************************)
C34_LeavesAreRecords ==
    /\ \A p \in NodePaths(Cur) :
          ~hasChildren(NodeAt(root[1], p)) => NodeAt(root[1], p).isRecord
    /\ (root # <<>> /\ ~root[1].isRecord) => numChildren(root[1]) >= 2
    /\ Cardinality(RecordPaths(Cur)) = 1 => NodePaths(Cur) = {<<>>}
    /\ root # <<>> => RecordPaths(Cur) # {}

\* A delete has just taken the second last key out of a tree whose root was
\* a branch: the tree is the single record that is left.
C34_Witness ==
    /\ last.op = "Delete" /\ last.err = "nil"
    /\ ~prev.root[1].isRecord
    /\ numChildren(prev.root[1]) = 2
    /\ NodePaths(Cur) = {<<>>}
    /\ root[1].isRecord /\ ~hasChildren(root[1])

\* The empty state: no root, both counters 0, no blob.
IsEmptyState(t) ==
    t.root = <<>> /\ t.numRecords = 0 /\ t.numNodes = 0 /\ t.blobs = EmptyBlobs

\* Deleting the given keys from t, in whatever order, ends in the empty state.
RECURSIVE DeletingAllEmpties(_, _)
DeletingAllEmpties(t, keys) ==
    IF keys = {} THEN IsEmptyState(t)
    ELSE \A k \in keys : DeletingAllEmpties(doDelete(t, BytesKey(k)).tree, keys \ {k})

(***************************************************************************)
(* C35: the root is nil exactly when numRecords is 0, and in that state    *)
(* numNodes is 0 and the blob store is empty; deleting every stored key,   *)
(* in any order, always brings the tree back to this empty state.          *)
(***************************************************************************)
C35_EmptyIffNoRecords ==
    /\ (root = <<>>) <=> (numRecords = 0)
    /\ root = <<>> => IsEmptyState(Cur)
    /\ last = Idle => DeletingAllEmpties(Cur, RecordKeys(Cur))

\* The first two parts alone.
C35_RootNilIffNoRecords ==
    /\ (root = <<>>) <=> (numRecords = 0)
    /\ root = <<>> => IsEmptyState(Cur)

\* With no empty key given to any call, all of it.
C35_EmptyAfterDeletingValidKeys ==
    /\ C35_RootNilIffNoRecords
    /\ last = Idle => DeletingAllEmpties(Cur, RecordKeys(Cur))

(***************************************************************************)
(* The descent loops of insert and findNodeAndParent, one iteration at a   *)
(* time.  While a call is in its loop last.err is "running" and last.ret   *)
(* holds the loop's variables: the path of current, the remaining key, the *)
(* number of the iteration, and the bytes of the key the latest move to a  *)
(* child consumed.                                                         *)
(***************************************************************************)
Loop(path, key, iterations, consumed) ==
    <<[path |-> path, key |-> key, iterations |-> iterations, consumed |-> consumed]>>

\* The same with what the call will have made of the tree when its loop
\* returns: the tree does not change while the loop runs.
LoopOfInsert(key, iterations, r) == Loop(<<>>, key, iterations, 0) \o <<r>>

\* A faulty iteration of insert that does not trim the key before it moves on.
insertIteration_keepsKey(current, key) ==
    LET prefixLen == Len(longestCommonPrefix(current.key, key))
        next == findCompatibleChild(current, DropPrefix(key, prefixLen))
    IN IF \/ prefixLen = Len(current.key) /\ prefixLen = Len(key)
          \/ prefixLen = Len(key) /\ prefixLen < Len(current.key)
          \/ prefixLen > 0 /\ prefixLen < Len(current.key)
          \/ next = 0
       THEN [returns |-> TRUE, next |-> 0, key |-> key]
       ELSE [returns |-> FALSE, next |-> next, key |-> key]

\* One iteration of the loop of insert at current with the remaining key:
\* whether it returns, and if not the child it moves to and the key it goes
\* on with.
insertIteration(current, key) ==
    LET prefixLen == Len(longestCommonPrefix(current.key, key))
        rest == DropPrefix(key, prefixLen)
        next == findCompatibleChild(current, rest)
    IN IF prefixLen = Len(current.key) /\ prefixLen = Len(key)
       THEN [returns |-> TRUE, next |-> 0, key |-> key]
       ELSE IF prefixLen = Len(key) /\ prefixLen < Len(current.key)
       THEN [returns |-> TRUE, next |-> 0, key |-> key]
       ELSE IF prefixLen > 0 /\ prefixLen < Len(current.key)
       THEN [returns |-> TRUE, next |-> 0, key |-> key]
       ELSE IF next = 0
       THEN [returns |-> TRUE, next |-> 0, key |-> rest]
       ELSE [returns |-> FALSE, next |-> next, key |-> rest]

\* One iteration of the loop of findNodeAndParent.
findIteration(current, key, isRoot) ==
    LET prefixLen == Len(longestCommonPrefix(current.key, key))
        rest == DropPrefix(key, prefixLen)
        next == findCompatibleChild(current, rest)
        notFound == [returns |-> TRUE, err |-> "ErrKeyNotFound", next |-> 0, key |-> key]
    IN IF prefixLen = 0 /\ ~isRoot THEN notFound
       ELSE IF prefixLen # Len(current.key) THEN notFound
       ELSE IF prefixLen = Len(key) THEN [returns |-> TRUE, err |-> "nil", next |-> 0, key |-> key]
       ELSE IF ~hasChildren(current) THEN notFound
       ELSE IF next = 0 THEN [notFound EXCEPT !.key = rest]
       ELSE [returns |-> FALSE, err |-> "nil", next |-> next, key |-> rest]

DescentKeys == {BytesKey(k) : k \in KeyBytes}
DescentValue == BytesValue(<<115>>)

\* insert is called: it returns before its loop, or enters the loop at the
\* root.
InsertCall(key) ==
    LET r == insert(Cur, key, DescentValue, TRUE)
        entersLoop == /\ ~empty(Cur)
                      /\ ~(Len(root[1].key) > 0
                           /\ Len(longestCommonPrefix(root[1].key, key.b)) = 0)
    IN /\ last = Idle
       /\ WithinBounds(r.tree)
       /\ prev' = Cur
       /\ IF entersLoop
          THEN /\ last' = Call("insert", key, DescentValue, "running",
                                LoopOfInsert(key.b, 1, r))
               /\ UNCHANGED <<root, numNodes, numRecords, blobs>>
          ELSE /\ last' = Call("insert", key, DescentValue, r.err, LoopOfInsert(key.b, 0, r))
               /\ root' = r.tree.root
               /\ numNodes' = r.tree.numNodes
               /\ numRecords' = r.tree.numRecords
               /\ blobs' = r.tree.blobs
       /\ UNCHANGED <<concVars, memVars>>

\* One iteration of the loop of insert; the iteration that returns makes
\* the change to the tree.
InsertIterate ==
    /\ last.op = "insert" /\ last.err = "running"
    /\ \E it \in {insertIteration(NodeAt(root[1], last.ret[1].path), last.ret[1].key)} :
          IF it.returns
          THEN /\ last' = [last EXCEPT !.err = last.ret[2].err]
               /\ root' = last.ret[2].tree.root
               /\ numNodes' = last.ret[2].tree.numNodes
               /\ numRecords' = last.ret[2].tree.numRecords
               /\ blobs' = last.ret[2].tree.blobs
          ELSE /\ last' = [last EXCEPT !.ret[1] =
                              Loop(Append(last.ret[1].path, it.next), it.key,
                                   last.ret[1].iterations + 1,
                                   Len(last.ret[1].key) - Len(it.key))[1]]
               /\ UNCHANGED <<root, numNodes, numRecords, blobs>>
    /\ UNCHANGED <<prev, concVars, memVars>>

\* findNodeAndParent is called: it returns before its loop (nil key, empty
\* tree), or enters the loop at the root.
FindCall(key) ==
    /\ last = Idle
    /\ prev' = Cur
    /\ last' = IF key.nil THEN Call("findNodeAndParent", key, NoValue, "ErrNilKey", Loop(<<>>, <<>>, 0, 0))
               ELSE IF empty(Cur)
               THEN Call("findNodeAndParent", key, NoValue, "ErrKeyNotFound", Loop(<<>>, key.b, 0, 0))
               ELSE Call("findNodeAndParent", key, NoValue, "running", Loop(<<>>, key.b, 1, 0))
    /\ UNCHANGED <<root, numNodes, numRecords, blobs>>
    /\ UNCHANGED <<concVars, memVars>>

FindIterate ==
    /\ last.op = "findNodeAndParent" /\ last.err = "running"
    /\ \E it \in {findIteration(NodeAt(root[1], last.ret[1].path), last.ret[1].key,
                                last.ret[1].path = <<>>)} :
          last' = IF it.returns
                  THEN [last EXCEPT !.err = it.err]
                  ELSE [last EXCEPT !.ret =
                           Loop(Append(last.ret[1].path, it.next), it.key,
                                last.ret[1].iterations + 1,
                                Len(last.ret[1].key) - Len(it.key))]
    /\ UNCHANGED <<root, numNodes, numRecords, blobs, prev>>
    /\ UNCHANGED <<concVars, memVars>>

\* A call that is out of its loop returns to its caller.
DescentReturn == last.err # "running" /\ Return

NextDescent ==
    \/ \E key \in DescentKeys : InsertCall(key)
    \/ InsertIterate
    \/ \E key \in DescentKeys \cup {NilKey} : FindCall(key)
    \/ FindIterate
    \/ \E key \in DescentKeys : Delete(key)
    \/ DescentReturn

SpecDescent == Init /\ [][NextDescent]_vars

\* A loop that can make its next iteration does so: nothing in the code
\* suspends a call between two iterations.
SpecDescentFair == SpecDescent /\ WF_vars(InsertIterate) /\ WF_vars(FindIterate)

\* A call is in, or has just left, one of the two loops.
InDescent == last.op \in {"insert", "findNodeAndParent"}

\* What holds of the loop's variables at every iteration.
DescentBounded ==
    InDescent =>
        LET loop == last.ret[1]
        IN /\ loop.iterations <= Len(last.key.b) + 1
           /\ loop.iterations > 1 =>
                 \/ loop.consumed >= 1
                 \/ loop.consumed = 0 /\ Len(loop.path) = 1 /\ Len(root[1].key) = 0
           /\ loop.iterations >= 1 => Len(loop.path) = loop.iterations - 1
           /\ (last.op = "findNodeAndParent" /\ last.err = "nil" /\ loop.iterations >= 1)
                 => /\ findNodeAndParent(Cur, last.key).err = "nil"
                    /\ findNodeAndParent(Cur, last.key).path = loop.path
           /\ (last.op = "findNodeAndParent" /\ last.err \notin {"nil", "running"})
                 => findNodeAndParent(Cur, last.key).err = last.err

(***************************************************************************)
(* C36: on every reachable tree and for every key the descent loops of     *)
(* insert and findNodeAndParent terminate: each iteration either returns   *)
(* or moves to a child after consuming at least one byte of the remaining  *)
(* key (zero bytes only at an empty-key root), so the number of iterations *)
(* is at most the key length plus one.                                     *)
(***************************************************************************)
C36_DescentTerminates ==
    /\ []DescentBounded
    /\ (last.err = "running") ~> (last.err # "running")

\* A loop has returned in its third iteration for a key of two bytes, after
\* a first move from an empty-key root that consumed no byte.
C36_Witness ==
    /\ InDescent
    /\ last.err # "running"
    /\ last.ret[1].iterations = 3
    /\ Len(last.key.b) = 2
    /\ Len(prev.root[1].key) = 0

(***************************************************************************)
(* Goroutines calling DebugPrint, Len and Insert on one RadixDB.  The      *)
(* sync.RWMutex is modelled with the writer that waits: Lock first         *)
(* announces the writer, which from then on makes every new RLock wait,    *)
(* and is granted once the read locks taken before are released.           *)
(* mu.readers holds one <<goroutine, depth>> per read lock held; a         *)
(* goroutine whose pc is "wantLock" is the announced writer.               *)
(***************************************************************************)
DebugKeys == {BytesKey(<<97>>), BytesKey(<<98>>)}
DebugValue == BytesValue(<<115>>)

writerWaiting == \E u \in Threads : pc[u] = "wantLock"

\* RLock returns at once iff no writer holds the mutex and none waits for it.
rlockGranted(m) == m.writer = 0 /\ ~writerWaiting

\* The read locks goroutine t holds.
ReadLocksOf(t) == {r \in mu.readers : r[1] = t}

HoldsLock(t) == mu.writer = t \/ ReadLocksOf(t) # {}

\* DebugPrint: rdb.mu.RLock().
DebugPrintRLock(t) ==
    /\ pc[t] = "idle"
    /\ rlockGranted(mu)
    /\ mu' = [mu EXCEPT !.readers = @ \cup {<<t, 1>>}]
    /\ Step(t, "printing", [op |-> "DebugPrint", key |-> NilKey, val |-> NoValue], NoRes)
    /\ UNCHANGED snap
    /\ TreeUnchanged

\* Len: rdb.mu.RLock(), called by a goroutine of its own or from inside
\* DebugPrint, which evaluates rdb.Len() as an argument of printTree.
LenRLock(t) ==
    /\ pc[t] \in {"idle", "printing"}
    /\ rlockGranted(mu)
    /\ mu' = [mu EXCEPT !.readers = @ \cup {<<t, Cardinality(ReadLocksOf(t)) + 1>>}]
    /\ Step(t, IF pc[t] = "idle" THEN "len" ELSE "printingLen",
            IF pc[t] = "idle" THEN [op |-> "Len", key |-> NilKey, val |-> NoValue] ELSE call[t],
            NoRes)
    /\ UNCHANGED snap
    /\ TreeUnchanged

\* Len returns numRecords; its deferred RUnlock releases the read lock it
\* took.
LenRUnlock(t) ==
    /\ pc[t] \in {"len", "printingLen"}
    /\ mu' = [mu EXCEPT !.readers = @ \ {<<t, Cardinality(ReadLocksOf(t))>>}]
    /\ Step(t, IF pc[t] = "len" THEN "idle" ELSE "printed",
            IF pc[t] = "len" THEN NoCall ELSE call[t],
            IF pc[t] = "len" THEN NoRes ELSE [err |-> "nil", ret |-> <<numRecords>>])
    /\ UNCHANGED snap
    /\ TreeUnchanged

\* printTree has printed; the deferred rdb.mu.RUnlock() of DebugPrint.
DebugPrintRUnlock(t) ==
    /\ pc[t] = "printed"
    /\ mu' = [mu EXCEPT !.readers = @ \ {<<t, 1>>}]
    /\ Step(t, "idle", NoCall, NoRes)
    /\ UNCHANGED snap
    /\ TreeUnchanged

\* Insert: rdb.mu.Lock() is called.  One writer at a time gets this far.
InsertLockCalled(t, key) ==
    /\ pc[t] = "idle"
    /\ \A u \in Threads : pc[u] \notin {"wantLock", "writing", "written"}
    /\ rdbInsert(Cur, key, DebugValue).tree.numNodes <= MaxNodes
    /\ Step(t, "wantLock", [op |-> "Insert", key |-> key, val |-> DebugValue], NoRes)
    /\ UNCHANGED <<snap, mu>>
    /\ TreeUnchanged

\* rdb.mu.Lock() returns: no read lock is held any more.
InsertLockGranted(t) ==
    /\ pc[t] = "wantLock"
    /\ lockFree(mu)
    /\ mu' = [mu EXCEPT !.writer = t]
    /\ Step(t, "writing", call[t], NoRes)
    /\ UNCHANGED snap
    /\ TreeUnchanged

\* The body of Insert.
InsertWrite(t) ==
    /\ pc[t] = "writing"
    /\ \E r \in {rdbInsert(Cur, call[t].key, call[t].val)} :
          /\ root' = r.tree.root
          /\ numNodes' = r.tree.numNodes
          /\ numRecords' = r.tree.numRecords
          /\ blobs' = r.tree.blobs
          /\ Step(t, "written", call[t], [err |-> r.err, ret |-> <<>>])
    /\ UNCHANGED <<last, prev, snap, mu, heap, held, hist>>

\* The deferred rdb.mu.Unlock() of Insert.
InsertUnlock(t) ==
    /\ pc[t] = "written"
    /\ mu' = [mu EXCEPT !.writer = 0]
    /\ Step(t, "idle", NoCall, NoRes)
    /\ UNCHANGED snap
    /\ TreeUnchanged

NextDebug ==
    \E t \in Threads :
        \/ DebugPrintRLock(t)
        \/ LenRLock(t)
        \/ LenRUnlock(t)
        \/ DebugPrintRUnlock(t)
        \/ \E key \in DebugKeys : InsertLockCalled(t, key)
        \/ InsertLockGranted(t)
        \/ InsertWrite(t)
        \/ InsertUnlock(t)

SpecDebug == Init /\ [][NextDebug]_vars

\* Goroutine t is about to call Lock or RLock.
AboutToLock(t) == pc[t] \in {"printing", "wantLock"}

\* Goroutine t is inside DebugPrint.
InDebugPrint(t) == pc[t] \in {"printing", "printingLen", "printed"}

\* No goroutine asks for the lock while it holds it.
NoLockWhileHeld == \A t \in Threads : AboutToLock(t) => ~HoldsLock(t)

\* A goroutine inside DebugPrint is never left with no step any goroutine
\* can take.
DebugPrintNeverStuck == (\E t \in Threads : InDebugPrint(t)) => ENABLED NextDebug

(***************************************************************************)
(* C37: no operation acquires the tree's lock while it already holds it,   *)
(* so no operation can block on itself: in particular DebugPrint, which    *)
(* calls Len while holding the shared lock, always completes even when a   *)
(* writer requests the exclusive lock between the two acquisitions.        *)
(***************************************************************************)
C37_NoLockWhileHeld == NoLockWhileHeld /\ DebugPrintNeverStuck

\* The second part by itself: DebugPrint is never stuck.
C37_DebugPrintNeverStuck == DebugPrintNeverStuck

\* Without DebugPrint no goroutine asks for the lock while it holds it, and
\* some goroutine can always take a step.
C37_OtherOperations ==
    (\A t \in Threads : ~InDebugPrint(t)) => (NoLockWhileHeld /\ ENABLED NextDebug)


(***************************************************************************)
(* node.findChild and node.removeChild, applied to the nodes of the trees  *)
(* that Add and Delete build.                                              *)
(***************************************************************************)
\* findChild: the 0-based index of the child found, -1 with ErrKeyNotFound.
findChild(n, key) ==
    LET index == sortSearch(n.children, key, 0, Len(n.children))
    IN IF index >= Len(n.children)
          \/ Len(longestCommonPrefix(n.children[index + 1].key, key)) = 0
       THEN [index |-> -1, err |-> "ErrKeyNotFound"]
       ELSE [index |-> index, err |-> "nil"]

\* The keys the child helpers are asked about: the keys of the tree, their
\* prefixes and extensions, and one that no child shares a byte with.
ChildKeys == KeyBytes \cup {<<99>>, <<97, 97, 97>>}

ChildValue == BytesValue(<<115>>)

\* n.findChild(key) on the node at path; the call records the node's path
\* and the index returned.
FindChild(path, key) ==
    LET r == findChild(NodeAt(Cur.root[1], path), key)
    IN /\ last = Idle
       /\ last' = Call("findChild", BytesKey(key), NoValue, r.err, <<path, r.index>>)
       /\ UNCHANGED <<root, numNodes, numRecords, blobs, prev>>
       /\ UNCHANGED <<concVars, memVars>>

\* n.removeChild(child) on a copy of the node at path, for a child node of
\* the given key; the call records the node's path and the child list left.
RemoveChild(path, key) ==
    LET r == removeChild(NodeAt(Cur.root[1], path), [key |-> key])
    IN /\ last = Idle
       /\ last' = Call("removeChild", BytesKey(key), NoValue, r.err,
                       <<path, r.node.children>>)
       /\ UNCHANGED <<root, numNodes, numRecords, blobs, prev>>
       /\ UNCHANGED <<concVars, memVars>>

NextChildren ==
    \/ \E key \in KeyBytes \ {<<>>} : Add(BytesKey(key), ChildValue)
    \/ \E key \in KeyBytes \ {<<>>} : Delete(BytesKey(key))
    \/ \E path \in NodePaths(Cur), key \in ChildKeys : FindChild(path, key)
    \/ \E path \in NodePaths(Cur), key \in ChildKeys : RemoveChild(path, key)
    \/ Return

SpecChildren == Init /\ [][NextChildren]_vars

\* The children of the node the last findChild or removeChild was called on.
ChildrenAsked == NodeAt(Cur.root[1], last.ret[1]).children

\* The (1-based) positions of the children whose key is the key asked for.
ExactMatches == {i \in 1..Len(ChildrenAsked) : ChildrenAsked[i].key = last.key.b}

SharesPrefixOnly(i) ==
    /\ ChildrenAsked[i].key # last.key.b
    /\ Len(longestCommonPrefix(ChildrenAsked[i].key, last.key.b)) > 0

\* C38: findChild(key) returns a child and its index only when that child's
\* key equals key; when no child has the key, whether or not one shares a
\* prefix with it, it returns ErrKeyNotFound with index -1.
C38_FindChildExactOnly ==
    last.op = "findChild" =>
        /\ last.err = "nil" => (last.ret[2] + 1) \in ExactMatches
        /\ ExactMatches = {} => last.err = "ErrKeyNotFound" /\ last.ret[2] = -1

\* C38, what holds: findChild returns a child only when that child shares a
\* prefix with the key, it returns the child whose key is the key when there
\* is one, and it returns ErrKeyNotFound with -1 when no child shares a
\* prefix with the key.
C38_FindChildSharesPrefix ==
    last.op = "findChild" =>
        /\ last.err \in {"nil", "ErrKeyNotFound"}
        /\ last.err = "nil" =>
              /\ last.ret[2] \in 0..(Len(ChildrenAsked) - 1)
              /\ Len(longestCommonPrefix(ChildrenAsked[last.ret[2] + 1].key,
                                         last.key.b)) > 0
        /\ last.err = "ErrKeyNotFound" => last.ret[2] = -1
        /\ ExactMatches # {} => last.err = "nil" /\ (last.ret[2] + 1) \in ExactMatches
        /\ (\A i \in 1..Len(ChildrenAsked) : ~SharesPrefixOnly(i) /\ i \notin ExactMatches)
              => last.err = "ErrKeyNotFound"

\* findChild was asked for a child's own key, and found it.
C38_FoundExact ==
    /\ last.op = "findChild"
    /\ last.err = "nil"
    /\ (last.ret[2] + 1) \in ExactMatches

Without(s, i) == SubSeq(s, 1, i - 1) \o SubSeq(s, i + 1, Len(s))

ChildrenSortedByKey(s) ==
    \A i \in 1..(Len(s) - 1) : bytesCompare(s[i].key, s[i + 1].key) < 0

\* C39: removeChild(child) removes exactly the one child whose key equals
\* child.key and keeps the others in sorted order; when no child has that key,
\* even if one shares a prefix with it, it returns ErrKeyNotFound and leaves
\* the child list unchanged.
C39_RemoveChildExactOnly ==
    last.op = "removeChild" =>
        IF ExactMatches = {}
        THEN last.err = "ErrKeyNotFound" /\ last.ret[2] = ChildrenAsked
        ELSE /\ last.err = "nil"
             /\ \E i \in ExactMatches : last.ret[2] = Without(ChildrenAsked, i)
             /\ ChildrenSortedByKey(last.ret[2])

\* C39, what holds: removeChild removes at most one child, one that shares a
\* prefix with child.key, and the child of that key when there is one; the
\* others stay in sorted order; with ErrKeyNotFound the list is unchanged.
C39_RemoveChildSharesPrefix ==
    last.op = "removeChild" =>
        /\ ChildrenSortedByKey(last.ret[2])
        /\ last.err = "ErrKeyNotFound" => last.ret[2] = ChildrenAsked
        /\ last.err = "nil" =>
              \E i \in 1..Len(ChildrenAsked) :
                 /\ last.ret[2] = Without(ChildrenAsked, i)
                 /\ Len(longestCommonPrefix(ChildrenAsked[i].key, last.key.b)) > 0
        /\ ExactMatches # {} =>
              /\ last.err = "nil"
              /\ \E i \in ExactMatches : last.ret[2] = Without(ChildrenAsked, i)

\* removeChild removed the child of the key it was given, of several.
C39_RemovedExact ==
    /\ last.op = "removeChild"
    /\ last.err = "nil"
    /\ ExactMatches # {}
    /\ Len(ChildrenAsked) >= 2

====
